---- MODULE Spec2Model ----
(***************************************************************************)
(* Verification model of the L/H constraint kit of llvm-deps:              *)
(*   - the element algebra (LHConstant, LHConsVar, LHJoin),                *)
(*   - the constraint store and its per-kind locking (LHConstraintKit),    *)
(*   - the propagation solver (PartialSolution) and the worklist solver    *)
(*     (LHConsLeastSoln / LHConsGreatestSoln),                             *)
(*   - the bulk solver solveLeastMT with its worker threads,               *)
(*   - the taint / untaint interface of Infoflow on top of the kit.        *)
(*                                                                         *)
(* Conventions.  The kit is modelled as built with assertions enabled: a   *)
(* failing assert() aborts the process (fatal = "assert") and the side     *)
(* effects written inside assert() conditions take place.  Reading through *)
(* a null PartialSolution pointer faults (fatal = "segv").  After a fatal  *)
(* error no operation runs any more.                                       *)
(***************************************************************************)
EXTENDS Integers, Sequences, FiniteSets, TLC

(***************************************************************************)
(* Bounds of the model.                                                    *)
(***************************************************************************)
NumVars == 6        \* constraint variables created with newVar
MaxAdds == 2        \* addConstraint calls in one run of the kit
MaxSolves == 2      \* solve requests in one run of the kit
MaxMTKinds == 2     \* kinds handed to one solveLeastMT call

VARIABLES
  constraints,            \* StringMap kind -> vector<LHConstraint>
  lockedConstraintKinds,  \* std::set of kinds
  leastSolutions,         \* StringMap kind -> PartialSolution* (id or NULL)
  greatestSolutions,      \* StringMap kind -> PartialSolution* (id or NULL)
  heap,                   \* the allocated PartialSolution objects, by id
  fatal,                  \* "none", "assert" (failed assert) or "segv"
  added,                  \* history: every constraint appended, per kind
  requested,              \* history: kinds a solve entry point was asked for
  lastCall,               \* history: the last call made on the kit
  result,                 \* what the last solve request returned
  mt,                     \* the running solveLeastMT call and its workers
  nAdds, nSolves,         \* calls made so far
  sol,                    \* the solvers run on one constraint list (SpecSolve)
  inf,                    \* the maps of Infoflow (SpecTaint)
  joins,                  \* std::set<LHJoin> of the kit: address -> members
  ipa                     \* the inter-procedural analysis pass

\* The variables of the kit (LHConstraintKit::vars): the NumVars variables
\* of the specifications of the kit; under SpecProg the variables Infoflow
\* has created with newVar
Vars == IF inf.phase = "prog" THEN 1..inf.nVars ELSE 1..NumVars

(***************************************************************************)
(* Lattice and elements.  Levels: LOW = 0, HIGH = 1.                       *)
(***************************************************************************)
LOW == 0
HIGH == 1

low == [tag |-> "const", n |-> LOW, mem |-> {}]
high == [tag |-> "const", n |-> HIGH, mem |-> {}]
newVar(i) == [tag |-> "var", n |-> i, mem |-> {}]
LHJoin(elems) == [tag |-> "join", n |-> 0, mem |-> elems]

\* LHConstant::leq on two constants
leq(a, b) == (a = LOW) \/ (b = HIGH)

\* LHConstant::join
join(a, b) == IF leq(a, b) THEN b ELSE a

boolToLHC(B) == IF B THEN HIGH ELSE LOW

\* ConsElem::variables: the constraint variables occurring in an element
RECURSIVE variables(_)
variables(e) ==
  CASE e.tag = "const" -> {}
    [] e.tag = "var" -> {e.n}
    [] OTHER -> UNION {variables(m) : m \in e.mem}

\* LHConstraint
LHConstraint(lhs, rhs) == [left |-> lhs, right |-> rhs]

(***************************************************************************)
(* Iteration helpers: a std::set / sorted vector is walked in ascending    *)
(* order of its (integer) members.                                         *)
(***************************************************************************)
Min(S) == CHOOSE x \in S : \A y \in S : x <= y

RECURSIVE SetToSeq(_)
SetToSeq(S) == IF S = {} THEN <<>> ELSE <<Min(S)>> \o SetToSeq(S \ {Min(S)})

(***************************************************************************)
(* PartialSolution.  A partial solution is a heap object                   *)
(*   [P, VSet, Chained, initial];                                          *)
(* Chained holds the ids (addresses) of partial solutions, its own among   *)
(* them.  The heap h maps ids to objects.  An operator that works on the   *)
(* object under construction takes its fields as parameters.               *)
(***************************************************************************)
EmptyPMap == [v \in Vars |-> <<>>]

\* PartialSolution::isChanged, with the object's own VSet passed as vset
isChangedIn(h, chained, self, vset, V) ==
  \/ (self \in chained /\ V \in vset)
  \/ \E c \in chained \ {self} : V \in h[c].VSet

isChanged(h, id, V) == isChangedIn(h, h[id].Chained, id, h[id].VSet, V)

\* PartialSolution::subst of an element; changed is the set of variables for
\* which isChanged holds.  substJoin is the loop over the members of a join,
\* which starts from low.
RECURSIVE substWith(_, _, _)
RECURSIVE substJoin(_, _, _, _)
substJoin(initial, changed, substVal, elements) ==
  IF elements = {} THEN substVal
  ELSE substJoin(initial, changed,
                 join(substVal,
                      substWith(initial, changed, CHOOSE m \in elements : TRUE)),
                 elements \ {CHOOSE m \in elements : TRUE})

substWith(initial, changed, e) ==
  CASE e.tag = "var" -> boolToLHC(initial # (e.n \in changed))
    [] e.tag = "const" -> e.n
    [] OTHER -> substJoin(initial, changed, LOW, e.mem)

ChangedVars(h, id) == {v \in Vars : isChanged(h, id, v)}

subst(h, id, e) == substWith(h[id].initial, ChangedVars(h, id), e)

\* seedVSet dropping the seeds found so far at a constraint without targets
seedVSetReset(initial, ps, vars, targets, sFrom) ==
  IF targets = {} THEN [P |-> ps.P, VSet |-> {}]
  ELSE [P |-> [v \in Vars |-> IF v \in vars THEN ps.P[v] \o SetToSeq(targets)
                              ELSE ps.P[v]],
        VSet |-> IF initial
                 THEN (IF leq(sFrom, LOW) THEN ps.VSet \cup targets ELSE ps.VSet)
                 ELSE (IF ~leq(sFrom, LOW) THEN ps.VSet \cup targets ELSE ps.VSet)]

\* The body of the loop of initialize for one constraint From -> To, with
\* vars = variables(From), targets = variables(To), sFrom = subst(From)
seedVSet(initial, ps, vars, targets, sFrom) ==
  IF targets = {} THEN ps
  ELSE [P |-> [v \in Vars |-> IF v \in vars THEN ps.P[v] \o SetToSeq(targets)
                              ELSE ps.P[v]],
        VSet |-> IF initial
                 THEN (IF leq(sFrom, LOW) THEN ps.VSet \cup targets ELSE ps.VSet)
                 ELSE (IF ~leq(sFrom, LOW) THEN ps.VSet \cup targets ELSE ps.VSet)]

initializeFromTo(initial, ps, From, To) ==
  seedVSet(initial, ps, variables(From), variables(To),
           substWith(initial, ps.VSet, From))

\* initializeStep forgetting the seeds of the earlier constraints
initializeStepForget(c, initial, ps) ==
  initializeFromTo(initial, [P |-> ps.P, VSet |-> {}],
                   IF initial THEN c.right ELSE c.left,
                   IF initial THEN c.left ELSE c.right)

initializeStep(c, initial, ps) ==
  initializeFromTo(initial, ps, IF initial THEN c.right ELSE c.left,
                   IF initial THEN c.left ELSE c.right)

\* PartialSolution::initialize: one pass over the constraints, building the
\* propagation map and the seed VSet.  Chained = {this} during the pass, so
\* subst looks at the VSet built so far, which holds variables of the kit
\* only; the pass goes on while it does.
RECURSIVE initializeLoop(_, _, _, _)
initializeLoop(C, initial, i, ps) ==
  IF i > Len(C) \/ ~(ps.VSet \subseteq Vars) THEN ps
  ELSE initializeLoop(C, initial, i + 1, initializeStep(C[i], initial, ps))

initialize(C, initial) ==
  initializeLoop(C, initial, 1, [P |-> EmptyPMap, VSet |-> {}])

\* The order in which propagate enqueues a VSet (a SmallPtrSet)
VSetOrder(vs) == SetToSeq(vs)

\* seedWorkList enqueuing the object's own VSet only
seedWorkListOwn(h, self, vset, chainSeq) == VSetOrder(vset)

\* The initial worklist of propagate: the VSets of all chained solutions
RECURSIVE seedWorkList(_, _, _, _)
seedWorkList(h, self, vset, chainSeq) ==
  IF chainSeq = <<>> THEN <<>>
  ELSE VSetOrder(IF Head(chainSeq) = self THEN vset ELSE h[Head(chainSeq)].VSet)
       \o seedWorkList(h, self, vset, Tail(chainSeq))

\* The Updates lists of every V in all chained propagation maps, in chain
\* order
\* A propagation map has the Updates lists of the variables that existed
\* when it was built
updatesIn(P, V) == IF V \in DOMAIN P THEN P[V] ELSE <<>>

RECURSIVE updatesOf(_, _, _, _)
updatesOf(h, self, ownP, chainSeq) ==
  IF chainSeq = <<>> THEN [V \in Vars |-> <<>>]
  ELSE [V \in Vars |->
          updatesIn(IF Head(chainSeq) = self THEN ownP
                    ELSE h[Head(chainSeq)].P, V)
          \o updatesOf(h, self, ownP, Tail(chainSeq))[V]]

\* applyUpdates changing no variable
applyUpdatesNone(h, chained, self, ups, vset, workList) ==
  [VSet |-> vset, workList |-> workList]

\* applyUpdates without the test "if (!isChanged(*I))"
RECURSIVE applyUpdatesUnguarded(_, _, _, _, _, _)
applyUpdatesUnguarded(h, chained, self, ups, vset, workList) ==
  IF ups = <<>> THEN [VSet |-> vset, workList |-> workList]
  ELSE applyUpdatesUnguarded(h, chained, self, Tail(ups),
                             vset \cup {Head(ups)},
                             Append(workList, Head(ups)))

\* The inner loop of propagate over one Updates list
RECURSIVE applyUpdates(_, _, _, _, _, _)
applyUpdates(h, chained, self, ups, vset, workList) ==
  IF ups = <<>> THEN [VSet |-> vset, workList |-> workList]
  ELSE IF ~isChangedIn(h, chained, self, vset, Head(ups))
       THEN applyUpdates(h, chained, self, Tail(ups), vset \cup {Head(ups)},
                         Append(workList, Head(ups)))
       ELSE applyUpdates(h, chained, self, Tail(ups), vset, workList)

\* The while loop of propagate; st = [VSet, workList]
RECURSIVE propagateLoop(_, _, _, _, _)
propagateLoop(h, chained, self, ups, st) ==
  IF st.workList = <<>> THEN st.VSet
  ELSE propagateLoop(h, chained, self, ups,
                     applyUpdates(h, chained, self, ups[Head(st.workList)],
                                  st.VSet, Tail(st.workList)))

\* propagate with the worklist already seeded
propagateFrom(h, self, ownP, vset, chained, workList) ==
  propagateLoop(h, chained, self, updatesOf(h, self, ownP, SetToSeq(chained)),
                [VSet |-> vset, workList |-> workList])

\* PartialSolution::propagate on the object (ownP, vset, chained) with id self;
\* the result is the object's new VSet
propagate(h, self, ownP, vset, chained) ==
  propagateFrom(h, self, ownP, vset, chained,
                seedWorkList(h, self, vset, SetToSeq(chained)))

\* The constructor after initialize returned ini
constructed(h, id, initial, ini) ==
  [P |-> ini.P,
   VSet |-> propagate(h, id, ini.P, ini.VSet, {id}),
   Chained |-> {id},
   initial |-> initial]

\* PartialSolution(Constraints & C, bool initial), allocated at id
NewPartialSolution(h, id, C, initial) ==
  constructed(h, id, initial, initialize(C, initial))

\* PartialSolution(PartialSolution &P): the copy constructor, allocated at id
CopyPartialSolution(h, id, p) ==
  [P |-> EmptyPMap, VSet |-> {}, Chained |-> {id} \cup h[p].Chained,
   initial |-> h[p].initial]

\* mergeIn without the call of propagate
mergeInNoPropagate(h, self, ps, chained) == [ps EXCEPT !.Chained = chained]

\* mergeIn once the chain is extended to chained
mergeInChained(h, self, ps, chained) ==
  [ps EXCEPT !.Chained = chained,
             !.VSet = propagate(h, self, ps.P, ps.VSet, chained)]

\* PartialSolution::mergeIn(P) on the object ps with id self
mergeIn(h, self, ps, p) ==
  mergeInChained(h, self, ps, ps.Chained \cup h[p].Chained)

\* The value the object ps (id self) gives every variable
Valuation(h, self, ps) ==
  [v \in Vars |->
     boolToLHC(ps.initial # isChangedIn(h, ps.Chained, self, ps.VSet, v))]

(***************************************************************************)
(* LHConstraintKit.  Kinds are strings; a std::set<std::string> is walked  *)
(* in string order, which KindOrder lists.                                 *)
(***************************************************************************)
KindOrder == <<"default", "default-sinks", "implicit", "implicit-sinks",
               "k1", "k1-sinks", "k1-sources", "k2">>
Kinds == {KindOrder[i] : i \in 1..Len(KindOrder)}

InKindSet(S) == LET Test(k) == k \in S IN SelectSeq(KindOrder, Test)

NULL == 0           \* the null PartialSolution pointer
T == 16             \* worker threads of solveLeastMT

vars == <<constraints, lockedConstraintKinds, leastSolutions,
          greatestSolutions, heap, fatal, added, requested, lastCall, result,
          mt, nAdds, nSolves, sol, inf, joins, ipa>>

\* The kit as one record, for the operators below
Kit == [constraints |-> constraints, locked |-> lockedConstraintKinds,
        least |-> leastSolutions, greatest |-> greatestSolutions,
        heap |-> heap, fatal |-> fatal]

\* LHConstraintKit::LHConstraintKit()
EmptyKit == [constraints |-> <<>>, locked |-> {}, least |-> <<>>,
             greatest |-> <<>>, heap |-> <<>>, fatal |-> "none"]

\* operator new: an address not in use
FreshId(h) == Min({i \in 1..(Cardinality(DOMAIN h) + 1) : i \notin DOMAIN h})

\* GetOrCreateValue entering a new kind with a constraint in its list
getOrCreateConstraintSetSeeded(cs, kind) ==
  IF kind \in DOMAIN cs THEN cs
  ELSE cs @@ (kind :> <<LHConstraint(high, newVar(1))>>)

\* StringMap::GetOrCreateValue on the constraint map
getOrCreateConstraintSet(cs, kind) ==
  IF kind \in DOMAIN cs THEN cs ELSE cs @@ (kind :> <<>>)

\* StringMap::operator[] on a solution map: a missing key is entered as NULL
getOrCreateSolution(sols, kind) ==
  IF kind \in DOMAIN sols THEN sols ELSE sols @@ (kind :> NULL)

\* The constraints addConstraint appends for lhs <= rhs: one per member of a
\* join on the left
RECURSIVE eachMember(_, _)
eachMember(S, rhs) ==
  IF S = {} THEN <<>>
  ELSE LET m == CHOOSE x \in S : TRUE
       IN <<LHConstraint(m, rhs)>> \o eachMember(S \ {m}, rhs)

expandConstraint(lhs, rhs) ==
  IF lhs.tag = "join" THEN eachMember(lhs.mem, rhs)
  ELSE <<LHConstraint(lhs, rhs)>>

\* LHConstraintKit::addConstraint on the kit K
addConstraintTo(K, kind, lhs, rhs) ==
  IF kind \in K.locked \/ rhs.tag = "join"
  THEN [K EXCEPT !.fatal = "assert"]
  ELSE [K EXCEPT !.constraints =
          [getOrCreateConstraintSet(K.constraints, kind) EXCEPT
             ![kind] = @ \o expandConstraint(lhs, rhs)]]

\* LHConstraintKit::freeUnneededConstraints
freeUnneededConstraints(K, kind) ==
  IF /\ kind \in K.locked
     /\ kind \in DOMAIN K.least
     /\ kind \in DOMAIN K.greatest
  THEN [K EXCEPT !.constraints =
          [getOrCreateConstraintSet(K.constraints, kind) EXCEPT ![kind] = <<>>]]
  ELSE K

\* lockKind not entering the kind
lockKindNot(K, kind) == K

\* lockedConstraintKinds.insert(kind)
lockKind(K, kind) == [K EXCEPT !.locked = @ \cup {kind}]

\* sols[kind] = the object ps allocated at id
storeSolution(K, kind, greatest, id, ps) ==
  [K EXCEPT !.heap = @ @@ (id :> ps),
            !.greatest = IF greatest THEN (kind :> id) @@ @ ELSE @,
            !.least = IF greatest THEN @ ELSE (kind :> id) @@ @]

newSolutionAt(K, kind, greatest, id) ==
  storeSolution(K, kind, greatest, id,
                NewPartialSolution(K.heap, id, K.constraints[kind], greatest))

\* sols[kind] = new PartialSolution(getOrCreateConstraintSet(kind), greatest)
newSolution(K, kind, greatest) ==
  newSolutionAt([K EXCEPT !.constraints = getOrCreateConstraintSet(@, kind)],
                kind, greatest, FreshId(K.heap))

\* The body of "if (!leastSolutions.count(kind))" of leastSolution and of
\* "if (!greatestSolutions.count(kind))" of greatestSolution
cacheSolution(K, kind, greatest) ==
  freeUnneededConstraints(newSolution(lockKind(K, kind), kind, greatest), kind)

ensureCached(K, kind, greatest) ==
  IF kind \notin DOMAIN (IF greatest THEN K.greatest ELSE K.least)
  THEN cacheSolution(K, kind, greatest)
  ELSE K

\* new PartialSolution(*P), allocated at id
copyInto(K, id, P) ==
  [K EXCEPT !.heap = @ @@ (id :> CopyPartialSolution(K.heap, id, P))]

\* PS->mergeIn(*P)
mergeInto(K, PS, P) ==
  [K EXCEPT !.heap[PS] = mergeIn(K.heap, PS, @, P)]

\* The loop of leastSolution / greatestSolution over the kinds.  PS is the id
\* of the solution being built (NULL before the first kind); the result is
\* the kit with PS still allocated in its heap.
RECURSIVE solutionLoop(_, _, _, _)
solutionChain(K, kindSeq, greatest, PS, P) ==
  IF P = NULL
  THEN [K |-> [K EXCEPT !.fatal = "segv"], PS |-> PS]
  ELSE IF PS = NULL
  THEN solutionLoop(copyInto(K, FreshId(K.heap), P), Tail(kindSeq), greatest,
                    FreshId(K.heap))
  ELSE solutionLoop(mergeInto(K, PS, P), Tail(kindSeq), greatest, PS)

solutionStep(K, kindSeq, greatest, PS) ==
  solutionChain(K, kindSeq, greatest, PS,
                (IF greatest THEN K.greatest ELSE K.least)[Head(kindSeq)])

solutionLoop(K, kindSeq, greatest, PS) ==
  IF kindSeq = <<>> \/ K.fatal # "none" THEN [K |-> K, PS |-> PS]
  ELSE solutionStep(ensureCached(K, Head(kindSeq), greatest), kindSeq,
                    greatest, PS)

\* assert(PS && "No kinds given?")
solutionReturn(r) ==
  IF r.K.fatal = "none" /\ r.PS = NULL
  THEN [K |-> [r.K EXCEPT !.fatal = "assert"], PS |-> NULL]
  ELSE r

\* LHConstraintKit::leastSolution / greatestSolution on the kit K
solution(K, kinds, greatest) ==
  solutionReturn(solutionLoop(K, InKindSet(kinds), greatest, NULL))

\* delete of the object id
Delete(h, id) == [i \in DOMAIN h \ {id} |-> h[i]]

NoResult == [op |-> "none", kinds |-> <<>>, useDefaultSinks |-> FALSE,
             vals |-> <<>>]
NoCall == [op |-> "none", kinds |-> <<>>]
NoMT == [running |-> FALSE, kinds |-> <<>>, useDefaultSinks |-> FALSE,
         Default |-> NULL, DefaultSinks |-> NULL, Merged |-> <<>>,
         Mergees |-> [t \in 0..(T - 1) |-> <<>>],
         next |-> [t \in 0..(T - 1) |-> 1],
         sinksPending |-> [t \in 0..(T - 1) |-> FALSE]]
NoSol == [phase |-> "off"]
NoInf == [phase |-> "off"]
NoJoins == <<>>
NoIpa == [phase |-> "off"]

\* The kit variables after a call that left the kit K
SetKit(K) ==
  /\ constraints' = K.constraints
  /\ lockedConstraintKinds' = K.locked
  /\ leastSolutions' = K.least
  /\ greatestSolutions' = K.greatest
  /\ heap' = K.heap
  /\ fatal' = K.fatal

Init ==
  /\ constraints = <<>>
  /\ lockedConstraintKinds = {}
  /\ leastSolutions = <<>>
  /\ greatestSolutions = <<>>
  /\ heap = <<>>
  /\ fatal = "none"
  /\ added = [k \in Kinds |-> <<>>]
  /\ requested = {}
  /\ lastCall = NoCall
  /\ result = NoResult
  /\ mt = NoMT
  /\ nAdds = 0
  /\ nSolves = 0
  /\ sol = NoSol
  /\ inf = NoInf
  /\ joins = NoJoins
  /\ ipa = NoIpa

Running == fatal = "none" /\ ~mt.running

\* The kinds and constraints the callers of the kit use in Spec
KitKinds == {"default", "default-sinks", "k1", "k2"}
KitPool == {LHConstraint(high, newVar(1)),
            LHConstraint(LHJoin({newVar(1), newVar(3)}), newVar(2)),
            LHConstraint(newVar(2), low)}

addConstraintReturn(K, kind, lhs, rhs) ==
  /\ SetKit(K)
  /\ added' = IF K.fatal = "none"
              THEN [added EXCEPT ![kind] = @ \o expandConstraint(lhs, rhs)]
              ELSE added

\* LHConstraintKit::addConstraint(kind, lhs, rhs)
addConstraint(kind, lhs, rhs) ==
  /\ Running
  /\ nAdds < MaxAdds
  /\ nAdds' = nAdds + 1
  /\ addConstraintReturn(addConstraintTo(Kit, kind, lhs, rhs), kind, lhs, rhs)
  /\ lastCall' = [op |-> "addConstraint", kinds |-> <<kind>>]
  /\ UNCHANGED <<requested, result, mt, nSolves, sol, inf, joins,
                 ipa>>

\* The caller of leastSolution / greatestSolution reads the solution r.PS and
\* deletes it
requestReturn(r, kinds, greatest) ==
  IF r.K.fatal = "none"
  THEN /\ SetKit([r.K EXCEPT !.heap = Delete(@, r.PS)])
       /\ result' = [op |-> IF greatest THEN "greatest" ELSE "least",
                     kinds |-> InKindSet(kinds),
                     useDefaultSinks |-> FALSE,
                     vals |-> <<Valuation(r.K.heap, r.PS, r.K.heap[r.PS])>>]
  ELSE /\ SetKit(r.K)
       /\ UNCHANGED result

\* A request for a solution, the limit-th request of the run at most
requestSolutionWithin(limit, kinds, greatest) ==
  /\ Running
  /\ nSolves < limit
  /\ nSolves' = nSolves + 1
  /\ requestReturn(solution(Kit, kinds, greatest), kinds, greatest)
  /\ requested' = requested \cup kinds
  /\ lastCall' = [op |-> IF greatest THEN "greatestSolution" ELSE "leastSolution",
                  kinds |-> InKindSet(kinds)]
  /\ UNCHANGED <<added, mt, nAdds, sol, inf, joins,
                 ipa>>

requestSolution(kinds, greatest) ==
  requestSolutionWithin(MaxSolves, kinds, greatest)

\* LHConstraintKit::leastSolution(kinds)
leastSolution(kinds) == requestSolution(kinds, FALSE)

\* LHConstraintKit::greatestSolution(kinds)
greatestSolution(kinds) == requestSolution(kinds, TRUE)

\* SolverThread::spawn and join: the thread's solution is stored in sols[kind]
solverThread(K, kind, greatest) ==
  newSolutionAt(K, kind, greatest, FreshId(K.heap))

\* LHConstraintKit::solveMT on the kit K
solveMTOn(K, kind) ==
  IF kind \in K.locked THEN [K EXCEPT !.fatal = "assert"]
  ELSE IF kind \in DOMAIN K.least \/ kind \in DOMAIN K.greatest
  THEN [K EXCEPT !.locked = @ \cup {kind}, !.fatal = "assert"]
  ELSE freeUnneededConstraints(
         solverThread(
           solverThread(
             [K EXCEPT !.locked = @ \cup {kind},
                       !.constraints = getOrCreateConstraintSet(@, kind)],
             kind, TRUE),
           kind, FALSE),
         kind)

\* LHConstraintKit::solveMT(kind): both solutions of one kind, each built by
\* its own thread from the kind's constraint list
solveMTWithin(limit, kind) ==
  /\ Running
  /\ nSolves < limit
  /\ nSolves' = nSolves + 1
  /\ SetKit(solveMTOn(Kit, kind))
  /\ requested' = requested \cup {kind}
  /\ lastCall' = [op |-> "solveMT", kinds |-> <<kind>>]
  /\ UNCHANGED <<added, result, mt, nAdds, sol, inf, joins,
                 ipa>>

solveMT(kind) == solveMTWithin(MaxSolves, kind)

\* The first loop of solveLeastMT: lock each kind, solve it and copy the
\* solution.  ToMerge collects the ids of the copies.
RECURSIVE solveKindsLoop(_, _, _)
solveKindsCopy(K, kindSeq, ToMerge) ==
  solveKindsLoop(copyInto(K, FreshId(K.heap), K.least[Head(kindSeq)]),
                 Tail(kindSeq), Append(ToMerge, FreshId(K.heap)))

solveKindsLoop(K, kindSeq, ToMerge) ==
  IF kindSeq = <<>> \/ K.fatal # "none" THEN [K |-> K, ToMerge |-> ToMerge]
  ELSE IF Head(kindSeq) \in K.locked \/ Head(kindSeq) \in DOMAIN K.least
  THEN [K |-> [K EXCEPT !.locked = @ \cup {Head(kindSeq)}, !.fatal = "assert"],
        ToMerge |-> ToMerge]
  ELSE solveKindsCopy(newSolution(lockKind(K, Head(kindSeq)), Head(kindSeq),
                                  FALSE),
                      kindSeq, ToMerge)

\* roundRobin handing out no merge job at all
roundRobinNone(ToMerge, TID, Mergees) == Mergees

\* roundRobin handing every copy to both of the first two workers
roundRobinShared(ToMerge, TID, Mergees) ==
  [t \in DOMAIN Mergees |->
     IF t <= 1 THEN [i \in 1..Len(ToMerge) |-> ToMerge[Len(ToMerge) + 1 - i]]
     ELSE <<>>]

\* The round-robin loop of solveLeastMT: hand the copies out, last one first
RECURSIVE roundRobin(_, _, _)
roundRobin(ToMerge, TID, Mergees) ==
  IF ToMerge = <<>> THEN Mergees
  ELSE roundRobin(SubSeq(ToMerge, 1, Len(ToMerge) - 1), (TID + 1) % T,
                  [Mergees EXCEPT ![TID] = Append(@, ToMerge[Len(ToMerge)])])

\* solveLeastMT from the end of its first loop to the start of the workers
startWorkers(K0, r, kinds, useDefaultSinks) ==
  /\ SetKit(r.K)
  /\ IF r.K.fatal = "none"
     THEN mt' = [running |-> TRUE,
                 kinds |-> kinds,
                 useDefaultSinks |-> useDefaultSinks,
                 Default |-> K0.least["default"],
                 DefaultSinks |-> K0.least["default-sinks"],
                 Merged |-> r.ToMerge,
                 Mergees |-> roundRobin(r.ToMerge, 0, NoMT.Mergees),
                 next |-> NoMT.next,
                 sinksPending |-> NoMT.sinksPending]
     ELSE mt' = mt

\* solveLeastMT after "DS = leastSolutions["default-sinks"]" left the kit K0
solveLeastMTOn(K0, kinds, useDefaultSinks) ==
  startWorkers(K0, solveKindsLoop(K0, kinds, <<>>), kinds, useDefaultSinks)

\* solveLeastMT(kinds, useDefaultSinks) up to the start of the worker threads
solveLeastMTBeginWithin(limit, kinds, useDefaultSinks) ==
  /\ Running
  /\ nSolves < limit
  /\ nSolves' = nSolves + 1
  /\ IF "default" \notin DOMAIN leastSolutions
     THEN /\ SetKit([Kit EXCEPT !.fatal = "assert"])
          /\ mt' = mt
     ELSE solveLeastMTOn(
            [Kit EXCEPT !.least = getOrCreateSolution(@, "default-sinks")],
            kinds, useDefaultSinks)
  /\ requested' = requested \cup {kinds[i] : i \in 1..Len(kinds)}
  /\ lastCall' = [op |-> "solveLeastMT", kinds |-> kinds]
  /\ UNCHANGED <<added, result, nAdds, sol, inf, joins,
                 ipa>>

solveLeastMTBegin(kinds, useDefaultSinks) ==
  solveLeastMTBeginWithin(MaxSolves, kinds, useDefaultSinks)

\* The mergeIn call the worker thread t makes next on its mergee I
mergeCall(t, I) ==
  IF ~mt.sinksPending[t]
  THEN /\ heap' = [heap EXCEPT ![I] = mergeIn(heap, I, @, mt.Default)]
       /\ fatal' = fatal
       /\ mt' = IF mt.useDefaultSinks
                THEN [mt EXCEPT !.sinksPending[t] = TRUE]
                ELSE [mt EXCEPT !.next[t] = @ + 1]
  ELSE IF mt.DefaultSinks = NULL
  THEN /\ fatal' = "segv"
       /\ UNCHANGED <<heap, mt>>
  ELSE /\ heap' = [heap EXCEPT ![I] = mergeIn(heap, I, @, mt.DefaultSinks)]
       /\ fatal' = fatal
       /\ mt' = [mt EXCEPT !.sinksPending[t] = FALSE, !.next[t] = @ + 1]

\* One step of the worker thread t (the function merge)
merge(t) ==
  /\ fatal = "none"
  /\ mt.running
  /\ mt.next[t] <= Len(mt.Mergees[t])
  /\ mergeCall(t, mt.Mergees[t][mt.next[t]])
  /\ UNCHANGED <<constraints, lockedConstraintKinds, leastSolutions,
                 greatestSolutions, added, requested, lastCall, result, nAdds,
                 nSolves, sol, inf, joins,
                 ipa>>

\* The values of the solutions ids, in the order of the vector
RECURSIVE valuations(_, _)
valuations(h, ids) ==
  IF ids = <<>> THEN <<>>
  ELSE <<Valuation(h, Head(ids), h[Head(ids)])>> \o valuations(h, Tail(ids))

RECURSIVE DeleteAll(_, _)
DeleteAll(h, ids) ==
  IF ids = <<>> THEN h ELSE DeleteAll(Delete(h, Head(ids)), Tail(ids))

\* solveLeastMT after all workers are joined: return Merged; the caller reads
\* the solutions and deletes them
solveLeastMTJoin ==
  /\ fatal = "none"
  /\ mt.running
  /\ \A t \in 0..(T - 1) : mt.next[t] > Len(mt.Mergees[t])
  /\ result' = [op |-> "mt", kinds |-> mt.kinds,
                useDefaultSinks |-> mt.useDefaultSinks,
                vals |-> valuations(heap, mt.Merged)]
  /\ heap' = DeleteAll(heap, mt.Merged)
  /\ mt' = NoMT
  /\ UNCHANGED <<constraints, lockedConstraintKinds, leastSolutions,
                 greatestSolutions, fatal, added, requested, lastCall, nAdds,
                 nSolves, sol, inf, joins,
                 ipa>>

KindSeqs == UNION {[1..n -> KitKinds] : n \in 0..MaxMTKinds}

Next ==
  \/ \E kind \in KitKinds, c \in KitPool : addConstraint(kind, c.left, c.right)
  \/ \E kinds \in SUBSET KitKinds : leastSolution(kinds)
  \/ \E kinds \in SUBSET KitKinds : greatestSolution(kinds)
  \/ \E kind \in KitKinds : solveMT(kind)
  \/ \E kinds \in KindSeqs, useDefaultSinks \in BOOLEAN :
       solveLeastMTBegin(kinds, useDefaultSinks)
  \/ \E t \in 0..(T - 1) : merge(t)
  \/ solveLeastMTJoin

Spec == Init /\ [][Next]_vars

(***************************************************************************)
(* Locking of solved kinds.                                                *)
(***************************************************************************)
\* C1: once a solution was requested for a kind through leastSolution,
\* greatestSolution, solveMT or solveLeastMT the kind stays locked; every
\* later addConstraint on it is a fatal error that appends nothing; a kind no
\* solution was requested for is never locked and addConstraint appends to it.
C1_RequestedKindsStayLocked ==
  [][/\ lockedConstraintKinds \subseteq lockedConstraintKinds'
     /\ lockedConstraintKinds' \subseteq requested'
     /\ (fatal' = "none" => requested' \subseteq lockedConstraintKinds')
     /\ \A k \in Kinds :
          (nAdds' = nAdds + 1 /\ lastCall'.kinds = <<k>>) =>
            IF k \in requested
            THEN /\ fatal' = "assert"
                 /\ added' = added
                 /\ constraints' = constraints
            ELSE /\ fatal' = "none"
                 /\ Len(added'[k]) > Len(added[k])
                 /\ constraints'[k] = added'[k]
                 /\ lockedConstraintKinds' = lockedConstraintKinds]_vars

\* A kind solved by solveLeastMT, then an addConstraint on it that failed
C1_Witness ==
  /\ result.op = "mt"
  /\ lastCall.op = "addConstraint"
  /\ lastCall.kinds[1] \in {result.kinds[i] : i \in 1..Len(result.kinds)}
  /\ fatal = "assert"
  /\ added[lastCall.kinds[1]] # <<>>

(***************************************************************************)
(* SpecMT: solveLeastMT on a kit after constraint generation.  The         *)
(* constraints of each kind are drawn from a pool; the baseline solution   *)
(* is requested with leastSolution, then solveLeastMT runs its workers.    *)
(***************************************************************************)
MTDefault == <<LHConstraint(newVar(1), newVar(2)),
               LHConstraint(newVar(3), newVar(4))>>
MTDefaultSinks == <<LHConstraint(newVar(2), newVar(3))>>
MTSources1 == <<LHConstraint(high, newVar(1)), LHConstraint(high, newVar(3))>>
MTSources2 == <<LHConstraint(high, newVar(3)),
                LHConstraint(newVar(4), newVar(1))>>

\* The members of pool at the indices I, in pool order
PickAt(pool, idx) == [i \in 1..Len(idx) |-> pool[idx[i]]]
Pick(pool, I) == PickAt(pool, SetToSeq(I))

\* addConstraint(kind, c.lhs, c.rhs) for every c of cs, in order
RECURSIVE addAll(_, _, _)
addAll(K, kind, cs) ==
  IF cs = <<>> THEN K
  ELSE addAll(addConstraintTo(K, kind, Head(cs).left, Head(cs).right), kind,
              Tail(cs))

RECURSIVE SumLen(_, _)
SumLen(f, S) ==
  IF S = {} THEN 0
  ELSE Len(f[CHOOSE k \in S : TRUE])
       + SumLen(f, S \ {CHOOSE k \in S : TRUE})

\* The kit K right after constraint generation
Generated(K) ==
  /\ constraints = K.constraints
  /\ lockedConstraintKinds = K.locked
  /\ leastSolutions = K.least
  /\ greatestSolutions = K.greatest
  /\ heap = K.heap
  /\ fatal = K.fatal
  /\ added = [k \in Kinds |-> IF k \in DOMAIN K.constraints
                              THEN K.constraints[k] ELSE <<>>]
  /\ nAdds = SumLen(K.constraints, DOMAIN K.constraints)
  /\ requested = {}
  /\ lastCall = NoCall
  /\ result = NoResult
  /\ mt = NoMT
  /\ nSolves = 0
  /\ sol = NoSol
  /\ inf = NoInf
  /\ joins = NoJoins
  /\ ipa = NoIpa

InitMT ==
  \E d \in SUBSET DOMAIN MTDefault, s \in SUBSET DOMAIN MTDefaultSinks,
     a \in SUBSET DOMAIN MTSources1, b \in SUBSET DOMAIN MTSources2 :
    Generated(addAll(addAll(addAll(addAll(EmptyKit,
                                          "default", Pick(MTDefault, d)),
                                   "default-sinks", Pick(MTDefaultSinks, s)),
                            "k1", Pick(MTSources1, a)),
                     "k2", Pick(MTSources2, b)))

MTKindSeqs == UNION {[1..n -> {"k1", "k2"}] : n \in 0..MaxMTKinds}

NextMT ==
  \/ \E sinks \in BOOLEAN :
       leastSolution({"default"}
                     \cup (IF sinks THEN {"default-sinks"} ELSE {}))
  \/ \E kinds \in MTKindSeqs, useDefaultSinks \in BOOLEAN :
       solveLeastMTBegin(kinds, useDefaultSinks)
  \/ \E t \in 0..(T - 1) : merge(t)
  \/ solveLeastMTJoin

SpecMT == InitMT /\ [][NextMT]_vars

\* The values leastSolution(kinds) returns on the kit K
leastValues(r) == Valuation(r.K.heap, r.PS, r.K.heap[r.PS])
SequentialLeast(K, kinds) == leastValues(solution(K, kinds, FALSE))

\* The kinds the i-th solution of solveLeastMT stands for
MergedKinds(k, useDefaultSinks) ==
  {"default", k} \cup (IF useDefaultSinks THEN {"default-sinks"} ELSE {})

\* C2: solveLeastMT(kinds, useDefaultSinks) returns one solution per kind, in
\* input order, and the i-th gives every variable the value that the
\* sequential leastSolution over {default, kinds[i]} (with default-sinks when
\* useDefaultSinks) gives it, on a kit holding the same constraints and on
\* this kit afterwards, whatever the interleaving of the workers.
C2_SolveLeastMTIsSequential ==
  result.op = "mt" =>
    /\ Len(result.vals) = Len(result.kinds)
    /\ \A i \in 1..Len(result.kinds) :
         /\ result.vals[i] =
              SequentialLeast([EmptyKit EXCEPT !.constraints = added],
                              MergedKinds(result.kinds[i],
                                          result.useDefaultSinks))
         /\ result.vals[i] =
              SequentialLeast(Kit, MergedKinds(result.kinds[i],
                                               result.useDefaultSinks))

\* Two kinds solved together with default-sinks: variable 4 is high for the
\* first kind only through default, default-sinks and default again
C2_Witness ==
  /\ result.op = "mt"
  /\ Len(result.kinds) = 2
  /\ result.useDefaultSinks
  /\ result.vals[1][4] = HIGH
  /\ result.vals[1][3] = HIGH
  /\ result.vals[2][4] = LOW

(***************************************************************************)
(* The worklist solver: LHConsSoln with LHConsLeastSoln and                *)
(* LHConsGreatestSoln.  A constraint is named by its index in the vector   *)
(* C the solver was built on; st = [changed, queue]; queueSet holds the    *)
(* members of queue.                                                       *)
(***************************************************************************)
Range(q) == {q[i] : i \in 1..Len(q)}

defaultValueOf(greatest) == IF greatest THEN HIGH ELSE LOW

\* LHConsSoln::subst; substVal of a join starts from defaultValue
RECURSIVE solnSubst(_, _, _)
RECURSIVE solnSubstJoin(_, _, _, _)
solnSubstJoin(defaultValue, changed, substVal, elements) ==
  IF elements = {} THEN substVal
  ELSE solnSubstJoin(defaultValue, changed,
                     join(substVal, solnSubst(defaultValue, changed,
                                              CHOOSE m \in elements : TRUE)),
                     elements \ {CHOOSE m \in elements : TRUE})

solnSubst(defaultValue, changed, elem) ==
  CASE elem.tag = "var" ->
         IF elem.n \in changed
         THEN (IF defaultValue = LOW THEN HIGH ELSE LOW)
         ELSE defaultValue
    [] elem.tag = "const" -> elem.n
    [] OTHER -> solnSubstJoin(defaultValue, changed, defaultValue, elem.mem)

\* enqueueConstraints leaving the queue as it is
enqueueNone(queue, cs) == queue

\* LHConsSoln::enqueueConstraints
RECURSIVE enqueueConstraints(_, _)
enqueueConstraints(queue, cs) ==
  IF cs = <<>> THEN queue
  ELSE enqueueConstraints(IF Head(cs) \in Range(queue) THEN queue
                          ELSE Append(queue, Head(cs)),
                          Tail(cs))

\* invalidIfIncreased[var] (least) and invalidIfDecreased[var] (greatest) as
\* the constructors fill them: the constraints from index i on with var on
\* the left (least) or on the right (greatest)
RECURSIVE invalidIf(_, _, _, _)
invalidIf(C, greatest, var, i) ==
  IF i > Len(C) THEN <<>>
  ELSE (IF var \in variables(IF greatest THEN C[i].right ELSE C[i].left)
        THEN <<i>> ELSE <<>>)
       \o invalidIf(C, greatest, var, i + 1)

\* "changed.insert(var); enqueueConstraints(invalidIf...[var])"
changeVar(C, greatest, var, st) ==
  [changed |-> st.changed \cup {var},
   queue |-> enqueueConstraints(st.queue, invalidIf(C, greatest, var, 1))]

\* The loop of LHConsLeastSoln::satisfyConstraint over the right variables
RECURSIVE satisfyLeastLoop(_, _, _, _)
satisfyLeastLoop(C, L, vs, st) ==
  IF vs = <<>> THEN st
  ELSE satisfyLeastLoop(C, L, Tail(vs),
         IF ~leq(L, solnSubst(LOW, st.changed, newVar(Head(vs))))
         THEN changeVar(C, FALSE, Head(vs), st)
         ELSE st)

\* LHConsLeastSoln::satisfyConstraint
satisfyConstraintLeast(C, c, st) ==
  satisfyLeastLoop(C, solnSubst(LOW, st.changed, C[c].left),
                   SetToSeq(variables(C[c].right)), st)

\* The loop of LHConsGreatestSoln::satisfyConstraint over the left variables;
\* leq is total on {LOW, HIGH}, so its last branch (the assert) is not taken
RECURSIVE satisfyGreatestLoop(_, _, _, _)
satisfyGreatestLoop(C, R, vs, st) ==
  IF vs = <<>> THEN st
  ELSE satisfyGreatestLoop(C, R, Tail(vs),
         IF leq(solnSubst(HIGH, st.changed, newVar(Head(vs))), R) THEN st
         ELSE IF leq(R, solnSubst(HIGH, st.changed, newVar(Head(vs))))
         THEN changeVar(C, TRUE, Head(vs), st)
         ELSE st)

\* LHConsGreatestSoln::satisfyConstraint
satisfyConstraintGreatest(C, c, st) ==
  satisfyGreatestLoop(C, solnSubst(HIGH, st.changed, C[c].right),
                      SetToSeq(variables(C[c].left)), st)

\* The body of the while loop of LHConsSoln::solve for the dequeued c
solveStep(C, greatest, c, st) ==
  IF leq(solnSubst(defaultValueOf(greatest), st.changed, C[c].left),
         solnSubst(defaultValueOf(greatest), st.changed, C[c].right))
  THEN st
  ELSE IF greatest THEN satisfyConstraintGreatest(C, c, st)
  ELSE satisfyConstraintLeast(C, c, st)

\* LHConsSoln::dequeueConstraint and the loop of solve
RECURSIVE solveLoop(_, _, _)
solveLoop(C, greatest, st) ==
  IF st.queue = <<>> THEN st.changed
  ELSE solveLoop(C, greatest,
                 solveStep(C, greatest, Head(st.queue),
                           [changed |-> st.changed, queue |-> Tail(st.queue)]))

\* LHConsSoln::solve on the constraint vector C: the set changed
LHConsSolnSolve(C, greatest) ==
  solveLoop(C, greatest,
            [changed |-> {},
             queue |-> enqueueConstraints(<<>>, [i \in 1..Len(C) |-> i])])

solnValues(defaultValue, changed) ==
  [v \in Vars |-> solnSubst(defaultValue, changed, newVar(v))]

\* The value LHConsSoln::subst gives every variable
solnValuation(C, greatest) ==
  solnValues(defaultValueOf(greatest), LHConsSolnSolve(C, greatest))

(***************************************************************************)
(* SpecSolve: both solvers on one constraint list.  The list is drawn from *)
(* a pool (joins only on the left, as addConstraint demands); the          *)
(* propagation solver takes it kind by kind, as leastSolution and          *)
(* greatestSolution do: a partial solution per kind, a copy of the first,  *)
(* the others merged in.  The objects are allocated at arbitrary free      *)
(* addresses.                                                              *)
(***************************************************************************)
MaxCons == 3        \* constraints in the list
MaxParts == 3       \* kinds the list is split into

SolvePool == <<LHConstraint(high, newVar(1)),
               LHConstraint(newVar(1), newVar(2)),
               LHConstraint(newVar(2), newVar(3)),
               LHConstraint(newVar(3), newVar(1)),
               LHConstraint(newVar(3), low),
               LHConstraint(newVar(1), low),
               LHConstraint(LHJoin({newVar(1), newVar(2)}), newVar(3)),
               LHConstraint(high, low),
               LHConstraint(low, newVar(2)),
               LHConstraint(newVar(2), high)>>

ConsOf(idx) == [i \in 1..Len(idx) |-> SolvePool[idx[i]]]

Addresses == 1..(MaxParts + 1)
Free(h) == Addresses \ DOMAIN h
Max(S) == CHOOSE x \in S : \A y \in S : y <= x
\* The addresses operator new may return: the lowest or the highest free one
Ends(S) == IF S = {} THEN {} ELSE {Min(S), Max(S)}

InitSolve ==
  /\ constraints = <<>>
  /\ lockedConstraintKinds = {}
  /\ leastSolutions = <<>>
  /\ greatestSolutions = <<>>
  /\ heap = <<>>
  /\ fatal = "none"
  /\ added = [k \in Kinds |-> <<>>]
  /\ requested = {}
  /\ lastCall = NoCall
  /\ result = NoResult
  /\ mt = NoMT
  /\ nAdds = 0
  /\ nSolves = 0
  /\ inf = NoInf
  /\ joins = NoJoins
  /\ ipa = NoIpa
  /\ \E n \in 0..MaxCons :
       \E cs \in [1..n -> DOMAIN SolvePool], initial \in BOOLEAN :
         sol = [phase |-> "on", cs |-> cs, initial |-> initial,
                consumed |-> 0, parts |-> 0, PS |-> NULL, wl |-> <<>>]

\* The next n constraints of the list: the constraint set of the next kind
nextKindCons(n) == ConsOf(SubSeq(sol.cs, sol.consumed + 1, sol.consumed + n))

\* "sols[kind] = new PartialSolution(C, initial); PS = new PartialSolution(*P)"
copyFirst(h, id, ps, cid) ==
  (heap' = (h @@ (id :> ps))
             @@ (cid :> CopyPartialSolution(h @@ (id :> ps), cid, id)))

firstKind(n, id, cid) ==
  /\ sol.phase = "on"
  /\ sol.PS = NULL
  /\ sol.parts < MaxParts
  /\ id # cid
  /\ copyFirst(heap, id,
               NewPartialSolution(heap, id, nextKindCons(n), sol.initial), cid)
  /\ sol' = [sol EXCEPT !.consumed = @ + n, !.parts = @ + 1, !.PS = cid]
  /\ UNCHANGED <<constraints, lockedConstraintKinds, leastSolutions,
                 greatestSolutions, fatal, added, requested, lastCall, result,
                 mt, nAdds, nSolves, inf, joins,
                 ipa>>

\* "sols[kind] = new PartialSolution(C, initial); PS->mergeIn(*P)"
mergeNext(h, id, ps, PS) ==
  (heap' = [(h @@ (id :> ps)) EXCEPT
              ![PS] = mergeIn(h @@ (id :> ps), PS, @, id)])

nextKind(n, id) ==
  /\ sol.phase = "on"
  /\ sol.PS # NULL
  /\ sol.parts < MaxParts
  /\ mergeNext(heap, id,
               NewPartialSolution(heap, id, nextKindCons(n), sol.initial),
               sol.PS)
  /\ sol' = [sol EXCEPT !.consumed = @ + n, !.parts = @ + 1]
  /\ UNCHANGED <<constraints, lockedConstraintKinds, leastSolutions,
                 greatestSolutions, fatal, added, requested, lastCall, result,
                 mt, nAdds, nSolves, inf, joins,
                 ipa>>

\* A LHConsLeastSoln / LHConsGreatestSoln built on the whole list and solved
worklistSolve ==
  /\ sol.phase = "on"
  /\ sol.wl = <<>>
  /\ sol' = [sol EXCEPT !.wl = <<solnValuation(ConsOf(sol.cs), sol.initial)>>]
  /\ UNCHANGED <<constraints, lockedConstraintKinds, leastSolutions,
                 greatestSolutions, heap, fatal, added, requested, lastCall,
                 result, mt, nAdds, nSolves, inf, joins,
                 ipa>>

NextSolve ==
  \/ \E n \in 0..(Len(sol.cs) - sol.consumed) :
       \E id \in Ends(Free(heap)), cid \in Ends(Free(heap)) :
         firstKind(n, id, cid)
  \/ \E n \in 0..(Len(sol.cs) - sol.consumed), id \in Ends(Free(heap)) :
       nextKind(n, id)
  \/ worklistSolve

SpecSolve == InitSolve /\ [][NextSolve]_vars

(***************************************************************************)
(* Properties of the solvers (SpecSolve).                                  *)
(***************************************************************************)
\* A solution PS was built from the first sol.consumed constraints
Solved == sol.phase = "on" /\ sol.PS # NULL

\* The values the merged solution PS gives the variables
mergedValues == Valuation(heap, sol.PS, heap[sol.PS])

\* The constraints PS was built from, in the order of the list
consumedCons == ConsOf(SubSeq(sol.cs, 1, sol.consumed))

\* The values of a partial solution built from C alone
FreshValuation(C, initial) ==
  Valuation(<<>>, 1, NewPartialSolution(<<>>, 1, C, initial))

\* C3: the copy of the first kind's solution, after the other kinds were
\* merged in, gives every variable the value that a fresh partial solution
\* built from all their constraints gives it, for least and for greatest
\* solutions and after any number of merges.
C3_MergeInIsUnion ==
  Solved => mergedValues = FreshValuation(consumedCons, sol.initial)

\* Three kinds merged, and a variable that is changed in none of the kinds'
\* own solutions: only the propagation of mergeIn changed it
C3_Witness ==
  /\ Solved
  /\ sol.parts = 3
  /\ sol.consumed = 3
  /\ \E v \in Vars :
       /\ v \in heap[sol.PS].VSet
       /\ \A id \in DOMAIN heap \ {sol.PS} : v \notin heap[id].VSet

HoldsUnder(c) ==
  leq(subst(heap, sol.PS, c.left), subst(heap, sol.PS, c.right))

\* Some assignment of L/H to the variables satisfies every constraint of C
Satisfiable(C) ==
  \E H \in SUBSET {1, 2, 3} :
    \A i \in 1..Len(C) :
      leq(substWith(FALSE, H, C[i].left), substWith(FALSE, H, C[i].right))

\* C5 as stated: every constraint the solution was built from holds under it
C5_EveryConstraintHolds ==
  Solved => \A i \in 1..Len(consumedCons) : HoldsUnder(consumedCons[i])

\* C5: whenever the constraints a solution was built from can be satisfied at
\* all, every one of them holds under the solution, least or greatest,
\* whatever mix of constants and variables it contains.
C5_SatisfiableConstraintsHold ==
  (Solved /\ Satisfiable(consumedCons)) =>
    \A i \in 1..Len(consumedCons) : HoldsUnder(consumedCons[i])

\* A satisfiable list of three different constraints, one with a constant,
\* solved to a mix of L and H
C5_Witness ==
  /\ Solved
  /\ sol.consumed = 3
  /\ Cardinality(Range(sol.cs)) = 3
  /\ Satisfiable(consumedCons)
  /\ \E i \in 1..3 : consumedCons[i].left.tag = "const"
                     \/ consumedCons[i].right.tag = "const"
  /\ \E v, w \in {1, 2, 3} : mergedValues[v] = HIGH /\ mergedValues[w] = LOW

\* The sublist of the consumed constraints at the positions I
subCons(I) == ConsOf(Pick(sol.cs, I))

\* C6: the least solution of a constraint list gives every variable a value
\* above or equal to the one the least solution of any sublist gives it.
C6_LeastMonotone ==
  (Solved /\ ~sol.initial) =>
    \A I \in SUBSET (1..sol.consumed) :
      \A v \in Vars :
        leq(FreshValuation(subCons(I), FALSE)[v], mergedValues[v])

\* A least solution with a high variable that is also bounded by low, and a
\* sublist whose least solution is strictly lower
C6_Witness ==
  /\ Solved
  /\ ~sol.initial
  /\ sol.consumed = 3
  /\ \E i \in 1..3 :
       /\ consumedCons[i].right = low
       /\ consumedCons[i].left.tag = "var"
       /\ mergedValues[consumedCons[i].left.n] = HIGH
  /\ \E I \in SUBSET (1..3) :
       /\ I # {}
       /\ FreshValuation(subCons(I), FALSE) # mergedValues

\* C7: the greatest solution of a constraint list gives every variable a
\* value below or equal to the one the greatest solution of any sublist
\* gives it.
C7_GreatestAntitone ==
  (Solved /\ sol.initial) =>
    \A I \in SUBSET (1..sol.consumed) :
      \A v \in Vars :
        leq(mergedValues[v], FreshValuation(subCons(I), TRUE)[v])

\* A greatest solution with a low variable that is also bounded by high, and
\* a sublist whose greatest solution is strictly higher
C7_Witness ==
  /\ Solved
  /\ sol.initial
  /\ sol.consumed = 3
  /\ \E i \in 1..3 :
       /\ consumedCons[i].left = high
       /\ consumedCons[i].right.tag = "var"
       /\ mergedValues[consumedCons[i].right.n] = LOW
  /\ \E I \in SUBSET (1..3) :
       /\ I # {}
       /\ FreshValuation(subCons(I), TRUE) # mergedValues

\* The constraints at the indices idx as a set, listed in pool order
Canonical(idx) == ConsOf(SetToSeq(Range(idx)))

\* The orders in which a set can be enumerated
Orders(S) ==
  {f \in [1..Cardinality(S) -> S] : \A i, j \in DOMAIN f : i # j => f[i] # f[j]}

seededValues(initial, ini, seed) ==
  Valuation(<<>>, 1,
            [P |-> ini.P,
             VSet |-> propagateFrom(<<>>, 1, ini.P, ini.VSet, {1}, seed),
             Chained |-> {1}, initial |-> initial])

\* The values of a partial solution built from C whose propagate enqueues
\* the seed VSet in the order seed
FreshSeeded(C, initial, seed) ==
  seededValues(initial, initialize(C, initial), seed)

\* C8: the values depend on the set of constraints only: whatever the order
\* the constraints were inserted in, the way they were split into kinds and
\* merged, the addresses (so the chain order) of the partial solutions, and
\* the order in which propagate or the worklist solver takes up its work,
\* every variable gets the value of the solution of the set in pool order.
C8_OrderIndependent ==
  /\ Solved =>
       /\ mergedValues =
            FreshValuation(Canonical(SubSeq(sol.cs, 1, sol.consumed)),
                           sol.initial)
       /\ \A seed \in Orders(initialize(consumedCons, sol.initial).VSet) :
            FreshSeeded(consumedCons, sol.initial, seed) = mergedValues
  /\ (sol.phase = "on" /\ sol.wl # <<>>) =>
       sol.wl[1] = solnValuation(Canonical(sol.cs), sol.initial)

\* A list that is not in pool order, split into three kinds whose merged
\* solution lies below them in memory, with two seeds to enqueue, a variable
\* changed by the merge, and the worklist solver run on the list
C8_Witness ==
  /\ Solved
  /\ sol.wl # <<>>
  /\ sol.consumed = 3
  /\ sol.parts = 3
  /\ sol.cs # SetToSeq(Range(sol.cs))
  /\ \A id \in DOMAIN heap : id >= sol.PS
  /\ Cardinality(initialize(consumedCons, sol.initial).VSet) >= 2
  /\ \E v \in Vars : v \in heap[sol.PS].VSet

(***************************************************************************)
(* Infoflow: the constraint variables of values and the taint interface.   *)
(* inf holds the maps from values to constraint variables (one context),   *)
(* the number of variables made with kit->newVar, and the history of the   *)
(* calls.  The operators work on S = [K |-> the kit, I |-> the maps].      *)
(***************************************************************************)
Values == {"x", "y"}
NoVar == 0          \* no entry in a map from values to variables
TaintKinds == {"k1", "k2"}

MaxFlows == 2       \* flow records constrained in one run
MaxTaints == 2      \* setTainted / setUntainted calls in one run
MaxQueries == 1     \* solutions or slices a client requests in one run

Info == [K |-> Kit, I |-> inf]
Alive(S) == S.K.fatal = "none"

\* kit->addConstraint(kind, lhs, rhs)
kitAddConstraint(S, kind, lhs, rhs) ==
  IF Alive(S) THEN [S EXCEPT !.K = addConstraintTo(@, kind, lhs, rhs)] ELSE S

\* kindFromImplicitSink choosing by the implicit flag alone
kindFromImplicit(implicit, sink) ==
  IF implicit THEN "implicit" ELSE "default"

\* Infoflow::kindFromImplicitSink
kindFromImplicitSink(implicit, sink) ==
  IF implicit
  THEN (IF sink THEN "implicit-sinks" ELSE "implicit")
  ELSE (IF sink THEN "default-sinks" ELSE "default")

\* Infoflow::getOrCreateConsElemSummarySource; the element is then
\* newVar(S.I.summarySourceValueConstraintMap[value])
getOrCreateConsElemSummarySource(S, value) ==
  IF ~Alive(S) \/ S.I.summarySourceValueConstraintMap[value] # NoVar THEN S
  ELSE [S EXCEPT !.I.summarySourceValueConstraintMap[value] = S.I.nVars + 1,
                 !.I.nVars = @ + 1]

\* Infoflow::getOrCreateConsElemSummarySink
getOrCreateConsElemSummarySink(S, value) ==
  IF ~Alive(S) \/ S.I.summarySinkValueConstraintMap[value] # NoVar THEN S
  ELSE [S EXCEPT !.I.summarySinkValueConstraintMap[value] = S.I.nVars + 1,
                 !.I.nVars = @ + 1]

constrainSummarySource(S, kind, value, lub) ==
  kitAddConstraint(S, kind, lub,
                   newVar(S.I.summarySourceValueConstraintMap[value]))

\* Infoflow::putOrConstrainConsElemSummarySource
putOrConstrainConsElemSummarySource(S, kind, value, lub) ==
  constrainSummarySource(getOrCreateConsElemSummarySource(S, value), kind,
                         value, lub)

constrainSummarySink(S, kind, value, lub) ==
  kitAddConstraint(S, kind, lub,
                   newVar(S.I.summarySinkValueConstraintMap[value]))

\* Infoflow::putOrConstrainConsElemSummarySink
putOrConstrainConsElemSummarySink(S, kind, value, lub) ==
  constrainSummarySink(getOrCreateConsElemSummarySink(S, value), kind, value,
                       lub)

\* "elem = kit->newVar(...); valueMap.insert(...)"
insertElem(S, value) ==
  [S EXCEPT !.I.valueConstraintMap[value] = S.I.nVars + 1, !.I.nVars = @ + 1]

\* "kit->addConstraint("default", summarySource, elem)"
hookUpSource(S, value) ==
  kitAddConstraint(S, "default",
                   newVar(S.I.summarySourceValueConstraintMap[value]),
                   newVar(S.I.valueConstraintMap[value]))

\* "putOrConstrainConsElemSummarySink("default", value, elem)"
hookUpSink(S, value) ==
  putOrConstrainConsElemSummarySink(S, "default", value,
                                    newVar(S.I.valueConstraintMap[value]))

\* Infoflow::getOrCreateConsElem(ctxt, value)
getOrCreateConsElem(S, value) ==
  IF ~Alive(S) \/ S.I.valueConstraintMap[value] # NoVar THEN S
  ELSE hookUpSink(
         hookUpSource(
           getOrCreateConsElemSummarySource(insertElem(S, value), value),
           value),
         value)

constrainElem(S, kind, value, lub) ==
  kitAddConstraint(S, kind, lub, newVar(S.I.valueConstraintMap[value]))

\* Infoflow::putOrConstrainConsElem(implicit, sink, ctxt, value, lub)
putOrConstrainConsElem(S, implicit, sink, value, lub) ==
  constrainElem(getOrCreateConsElem(S, value),
                kindFromImplicitSink(implicit, sink), value, lub)

\* The loop of constrainFlowRecord over the value sinks of the record
RECURSIVE constrainSinks(_, _, _)
constrainSinks(S, sourceElem, sinks) ==
  IF sinks = <<>> THEN S
  ELSE constrainSinks(
         putOrConstrainConsElem(S, FALSE, FALSE, Head(sinks), sourceElem),
         sourceElem, Tail(sinks))

\* "sourceElem = &kit->upperBound(Sources)" for the one source, and the sinks
constrainFrom(S, source, sinks) ==
  constrainSinks(S, LHJoin({newVar(S.I.valueConstraintMap[source])}), sinks)

\* Infoflow::constrainFlowRecord for an explicit record with one value
\* source and the value sinks sinks
constrainFlowRecordOn(S, source, sinks) ==
  constrainFrom(getOrCreateConsElem(S, source), source, sinks)

\* Infoflow::setTainted
setTaintedOn(S, kind, value) ==
  IF kind = "default" \/ kind = "implicit"
  THEN [S EXCEPT !.K.fatal = "assert"]
  ELSE putOrConstrainConsElemSummarySource(S, kind, value, high)

untaintSink(S, kind, value) ==
  kitAddConstraint(S, kind,
                   newVar(S.I.summarySinkValueConstraintMap[value]), low)

\* Infoflow::setUntainted
setUntaintedOn(S, kind, value) ==
  IF kind = "default" \/ kind = "implicit"
  THEN [S EXCEPT !.K.fatal = "assert"]
  ELSE untaintSink(getOrCreateConsElemSummarySink(S, value), kind, value)

\* InfoflowSolution::isTainted always answering defaultTainted
isTaintedDefault(h, soln, valueMap, defaultTainted, value) == defaultTainted

\* InfoflowSolution::isTainted
isTainted(h, soln, valueMap, defaultTainted, value) ==
  IF valueMap[value] # NoVar
  THEN subst(h, soln, newVar(valueMap[value])) = HIGH
  ELSE defaultTainted

\* The kinds Infoflow::leastSolution asks the kit for
leastKinds(kinds, implicit, sinks) ==
  kinds \cup {"default"}
        \cup (IF sinks THEN {"default-sinks"} ELSE {})
        \cup (IF implicit THEN {"implicit"} ELSE {})
        \cup (IF implicit /\ sinks THEN {"implicit-sinks"} ELSE {})

\* The kinds Infoflow::greatestSolution asks the kit for
greatestKinds(kinds, implicit) ==
  kinds \cup {"default", "default-sinks"}
        \cup (IF implicit THEN {"implicit", "implicit-sinks"} ELSE {})

InitTaint ==
  /\ constraints = <<>>
  /\ lockedConstraintKinds = {}
  /\ leastSolutions = <<>>
  /\ greatestSolutions = <<>>
  /\ heap = <<>>
  /\ fatal = "none"
  /\ added = [k \in Kinds |-> <<>>]
  /\ requested = {}
  /\ lastCall = NoCall
  /\ result = NoResult
  /\ mt = NoMT
  /\ nAdds = 0
  /\ nSolves = 0
  /\ sol = NoSol
  /\ joins = NoJoins
  /\ ipa = NoIpa
  /\ inf = [phase |-> "on",
            summarySourceValueConstraintMap |-> [v \in Values |-> NoVar],
            summarySinkValueConstraintMap |-> [v \in Values |-> NoVar],
            valueConstraintMap |-> [v \in Values |-> NoVar],
            nVars |-> 0, nFlows |-> 0, nTaints |-> 0,
            tainted |-> {}, untainted |-> {}, flows |-> {}]

flowReturn(S, source, sinks) ==
  /\ SetKit(S.K)
  /\ inf' = [S.I EXCEPT
               !.nFlows = @ + 1,
               !.flows = IF Alive(S)
                         THEN @ \cup {<<source, sinks[i]>> : i \in DOMAIN sinks}
                         ELSE @]

\* Infoflow::constrainFlowRecord(record)
constrainFlowRecord(source, sinks) ==
  /\ Running
  /\ inf.phase = "on"
  /\ inf.nFlows < MaxFlows
  /\ flowReturn(constrainFlowRecordOn(Info, source, sinks), source, sinks)
  /\ lastCall' = [op |-> "constrainFlowRecord", kinds |-> <<"default">>]
  /\ UNCHANGED <<added, requested, result, mt, nAdds, nSolves, sol, joins,
                 ipa>>

taintReturn(S, kind, value, tainted) ==
  /\ SetKit(S.K)
  /\ inf' = [S.I EXCEPT
               !.nTaints = @ + 1,
               !.tainted = IF Alive(S) /\ tainted
                           THEN @ \cup {<<kind, value>>} ELSE @,
               !.untainted = IF Alive(S) /\ ~tainted
                             THEN @ \cup {<<kind, value>>} ELSE @]

\* Infoflow::setTainted(kind, value)
setTainted(kind, value) ==
  /\ Running
  /\ inf.phase = "on"
  /\ inf.nTaints < MaxTaints
  /\ taintReturn(setTaintedOn(Info, kind, value), kind, value, TRUE)
  /\ lastCall' = [op |-> "setTainted", kinds |-> <<kind>>]
  /\ UNCHANGED <<added, requested, result, mt, nAdds, nSolves, sol, joins,
                 ipa>>

\* Infoflow::setUntainted(kind, value)
setUntainted(kind, value) ==
  /\ Running
  /\ inf.phase = "on"
  /\ inf.nTaints < MaxTaints
  /\ taintReturn(setUntaintedOn(Info, kind, value), kind, value, FALSE)
  /\ lastCall' = [op |-> "setUntainted", kinds |-> <<kind>>]
  /\ UNCHANGED <<added, requested, result, mt, nAdds, nSolves, sol, joins,
                 ipa>>

\* new InfoflowSolution(soln, defaultTainted, valueMap): the caller asks
\* isTainted for every value and deletes the solution
infoflowReturn(r, kinds, greatest, valueMap) ==
  IF r.K.fatal = "none"
  THEN /\ SetKit([r.K EXCEPT !.heap = Delete(@, r.PS)])
       /\ result' = [op |-> IF greatest THEN "greatest" ELSE "least",
                     kinds |-> InKindSet(kinds),
                     useDefaultSinks |-> "default-sinks" \in kinds,
                     vals |-> <<Valuation(r.K.heap, r.PS, r.K.heap[r.PS])>>,
                     isTainted |->
                       [v \in Values |->
                          isTainted(r.K.heap, r.PS, valueMap, greatest, v)]]
  ELSE /\ SetKit(r.K)
       /\ UNCHANGED result

infoflowSolution(kinds, greatest, valueMap) ==
  /\ Running
  /\ inf.phase = "on"
  /\ nSolves < MaxQueries
  /\ nSolves' = nSolves + 1
  /\ infoflowReturn(solution(Kit, kinds, greatest), kinds, greatest, valueMap)
  /\ requested' = requested \cup kinds
  /\ lastCall' = [op |-> IF greatest THEN "greatestSolution" ELSE "leastSolution",
                  kinds |-> InKindSet(kinds)]
  /\ UNCHANGED <<added, mt, nAdds, sol, inf, joins,
                 ipa>>

\* Infoflow::leastSolution(kinds, implicit, sinks)
Infoflow_leastSolution(kinds, implicit, sinks) ==
  infoflowSolution(leastKinds(kinds, implicit, sinks), FALSE,
                   inf.summarySinkValueConstraintMap)

\* Infoflow::greatestSolution(kinds, implicit)
Infoflow_greatestSolution(kinds, implicit) ==
  infoflowSolution(greatestKinds(kinds, implicit), TRUE,
                   inf.summarySourceValueConstraintMap)

\* The value sinks of a record with the source: none, or another value
SinksFor(source) == {<<>>} \cup {<<v>> : v \in Values \ {source}}

NextTaint ==
  \/ \E source \in Values : \E sinks \in SinksFor(source) :
       constrainFlowRecord(source, sinks)
  \/ \E kind \in TaintKinds, value \in Values : setTainted(kind, value)
  \/ \E kind \in TaintKinds, value \in Values : setUntainted(kind, value)
  \/ \E kinds \in SUBSET TaintKinds, sinks \in BOOLEAN :
       Infoflow_leastSolution(kinds, FALSE, sinks)
  \/ \E kinds \in SUBSET TaintKinds :
       Infoflow_greatestSolution(kinds, FALSE)

SpecTaint == InitTaint /\ [][NextTaint]_vars

\* The kinds of the last solution, as a set
resultKinds == Range(result.kinds)

\* C9 as stated: after setTainted(k, v) the least solution requested over k
\* reports v tainted, and after setUntainted(k, v) the greatest solution
\* requested over k reports v untainted, for any value v and any kind k
\* other than default and implicit.
C9_RoundTrip ==
  inf.phase = "on" =>
    \A k \in TaintKinds, v \in Values :
      /\ (result.op = "least" /\ k \in resultKinds /\ <<k, v>> \in inf.tainted)
           => result.isTainted[v]
      /\ (result.op = "greatest" /\ k \in resultKinds
          /\ <<k, v>> \in inf.untainted)
           => ~result.isTainted[v]

\* The case of C10: a flows to b in default, a is tainted in the source kind
\* k1, b is untainted in the kind k2, and the least solution was requested
\* over default, k1 and k2
Sanitized(a, b) ==
  /\ inf.phase = "on"
  /\ result.op = "least"
  /\ {"default", "k1", "k2"} \subseteq resultKinds
  /\ <<a, b>> \in inf.flows
  /\ <<"k1", a>> \in inf.tainted
  /\ <<"k2", b>> \in inf.untainted

\* C10 as stated: the least solution reports b untainted and a tainted
C10_SanitizedIsUntainted ==
  \A a, b \in Values :
    Sanitized(a, b) => (~result.isTainted[b] /\ result.isTainted[a])

\* C10: when x flows to y in the default kind and x is tainted by a source
\* kind, then after setUntainted on y in another kind the least solution
\* requested over the default, source and that kind still reports both x
\* and y tainted: a least solution ignores the bound "y below low".
C10_SanitizedStaysTainted ==
  \A a, b \in Values :
    Sanitized(a, b) => (result.isTainted[b] /\ result.isTainted[a])

C10_Witness == Sanitized("x", "y")

(***************************************************************************)
(* Interned joins.  joins maps the address of every LHJoin held by the     *)
(* kit's std::set<LHJoin> to its member set; the element a caller holds    *)
(* for the join at address id is joinAt(joins, id).  An LHJoin(elems) with *)
(* address 0 is a temporary outside the set.                               *)
(***************************************************************************)
MaxJoins == 2       \* upperBound calls in one run
NumAtoms == 3       \* variables handed to upperBound

joinAt(js, id) == [tag |-> "join", n |-> id, mem |-> js[id]]

\* The elements a caller of the kit can hold
Atoms == {high} \cup {newVar(i) : i \in 1..NumAtoms}
Interned(js) == {joinAt(js, id) : id \in DOMAIN js}
Elems(js) == Atoms \cup Interned(js)

\* The order of const ConsElem* pointers: the two constants, the variables,
\* the joins
addressOf(e) ==
  CASE e.tag = "const" -> e.n + 1
    [] e.tag = "var" -> 2 + e.n
    [] OTHER -> 2 + NumVars + e.n

Addrs(elems) == {addressOf(e) : e \in elems}

\* std::set<const ConsElem*>::operator< : lexicographic on the ascending
\* pointers
RECURSIVE lexLess(_, _)
lexLess(A, B) ==
  IF B = {} THEN FALSE
  ELSE IF A = {} THEN TRUE
  ELSE IF Min(A) # Min(B) THEN Min(A) < Min(B)
  ELSE lexLess(A \ {Min(A)}, B \ {Min(B)})

\* LHJoin::operator< comparing member counts only
LHJoinLessSize(a, b) == Cardinality(a) < Cardinality(b)

\* LHJoin::operator< on the member sets a and b
LHJoinLess(a, b) ==
  IF Cardinality(a) # Cardinality(b)
  THEN Cardinality(a) < Cardinality(b)
  ELSE lexLess(Addrs(a), Addrs(b))

\* LHJoin::create without flattening of its arguments
createNested(e1, e2) == LHJoin({e1, e2})

\* LHJoin::create(e1, e2)
create(e1, e2) ==
  LHJoin((IF e1.tag = "join" THEN e1.mem ELSE {e1})
           \cup (IF e2.tag = "join" THEN e2.mem ELSE {e2}))

\* The addresses of the joins of js equivalent to the member set elems
found(js, elems) ==
  {id \in DOMAIN js : ~LHJoinLess(js[id], elems) /\ ~LHJoinLess(elems, js[id])}

insertAt(js, elems, ids) ==
  IF ids # {}
  THEN [joins |-> js, elem |-> joinAt(js, Min(ids))]
  ELSE [joins |-> js @@ (FreshId(js) :> elems),
        elem |-> [tag |-> "join", n |-> FreshId(js), mem |-> elems]]

\* "joins.insert(join).first": the join already in the set, or the new one
insertJoin(js, j) == insertAt(js, j.mem, found(js, j.mem))

\* LHConstraintKit::upperBound(e1, e2)
upperBound(js, e1, e2) == insertJoin(js, create(e1, e2))

\* LHConstraintKit::upperBound(std::set<const ConsElem*> elems)
upperBoundSet(js, elems) == insertJoin(js, LHJoin(elems))

InitJoin == Init

joinReturn(r, call) ==
  /\ joins' = r.joins
  /\ result' = [op |-> call.op, kinds |-> <<>>, useDefaultSinks |-> FALSE,
                vals |-> <<>>, args |-> call.args, elem |-> r.elem]
  /\ lastCall' = [op |-> call.op, kinds |-> <<>>]
  /\ nSolves' = nSolves + 1
  /\ UNCHANGED <<constraints, lockedConstraintKinds, leastSolutions,
                 greatestSolutions, heap, fatal, added, requested, mt, nAdds,
                 sol, inf, ipa>>

\* kit.upperBound(e1, e2)
join2(e1, e2) ==
  /\ Running
  /\ nSolves < MaxJoins
  /\ joinReturn(upperBound(joins, e1, e2),
                [op |-> "upperBound", args |-> <<e1, e2>>])

\* kit.upperBound(elems)
joinMany(elems) ==
  /\ Running
  /\ nSolves < MaxJoins
  /\ joinReturn(upperBoundSet(joins, elems),
                [op |-> "upperBoundSet", args |-> <<elems>>])

\* The non-empty sets of at most three elements
SmallSets(S) == {X \in SUBSET S : X # {} /\ Cardinality(X) <= 3}

NextJoin ==
  \/ \E e1 \in Elems(joins), e2 \in Elems(joins) : join2(e1, e2)
  \/ \E elems \in SmallSets(Elems(joins)) : joinMany(elems)
  \/ \E lhs \in {newVar(1)} \cup Interned(joins),
        rhs \in {low} \cup Interned(joins) :
       addConstraint("default", lhs, rhs)

SpecJoin == InitJoin /\ [][NextJoin]_vars

\* join(join(a, b), c), then join(a, join(b, c)), then join_many({a, b, c}),
\* called one after another starting on the join set js
assocLeft(r, c) == upperBound(r.joins, r.elem, c)
assocRight(r, a) == upperBound(r.joins, a, r.elem)
thenMany(r, elems) == upperBoundSet(r.joins, elems).elem = r.elem
thenRight(r, a, b, c) ==
  thenMany(assocRight(upperBound(r.joins, b, c), a), {a, b, c})
    /\ assocRight(upperBound(r.joins, b, c), a).elem = r.elem
Associative(js, a, b, c) ==
  thenRight(assocLeft(upperBound(js, a, b), c), a, b, c)

\* join(b, a) called after join(a, b)
swapped(r, a, b) == upperBound(r.joins, b, a).elem = r.elem
Commutative(js, a, b) == swapped(upperBound(js, a, b), a, b)

\* C13: joins are interned by member set.  In every state of the kit no two
\* joins of the set have the same members; for all variables and constants
\* a, b, c: join(a,b) and join(b,a) return the same instance, and
\* join(join(a,b),c), join(a,join(b,c)) and join_many({a,b,c}) return the
\* same instance; and join(j,j) returns j for every interned join j without
\* adding a join.
C13_JoinsInterned ==
  /\ \A i, k \in DOMAIN joins : joins[i] = joins[k] => i = k
  /\ \A a, b \in Atoms : Commutative(joins, a, b)
  /\ \A a, b, c \in Atoms : Associative(joins, a, b, c)
  /\ \A j \in Interned(joins) :
       upperBound(joins, j, j) = [joins |-> joins, elem |-> j]

C13_Witness ==
  /\ result.op = "upperBound"
  /\ result.args[1].tag = "join"
  /\ result.args[2].tag = "var"
  /\ Cardinality(result.elem.mem) = 3
  /\ Cardinality(DOMAIN joins) = 2

\* C14 as stated: after any sequence of join and add operations no stored
\* constraint has a join on either side.
C14_NoStoredJoin ==
  \A kind \in DOMAIN constraints :
    \A i \in 1..Len(constraints[kind]) :
      /\ constraints[kind][i].left.tag # "join"
      /\ constraints[kind][i].right.tag # "join"

(***************************************************************************)
(* Solving kinds that were never created (checked on Spec).                *)
(***************************************************************************)
\* No constraint was ever added under the name and nothing created the kind
NeverCreated(k) == k \notin DOMAIN constraints /\ added[k] = <<>>

\* This step is a call of leastSolution or greatestSolution on a running kit
RequestStep ==
  /\ Running
  /\ nSolves' = nSolves + 1
  /\ lastCall'.op \in {"leastSolution", "greatestSolution"}

RequestedKinds == Range(lastCall'.kinds)

\* The solution map the request reads holds no null pointer for its kinds
\* (solveLeastMT leaves one for "default-sinks" when that kind is unsolved)
NoNullEntry ==
  \A k \in RequestedKinds :
    (lastCall'.op = "leastSolution" /\ k \in DOMAIN leastSolutions)
      => leastSolutions[k] # NULL

C16_BaselinesRequired ==
  mt.running =>
    /\ mt.Default # NULL
    /\ mt.useDefaultSinks => mt.DefaultSinks # NULL

\* The workers that have a job
Workers == {t \in 0..(T - 1) : mt.Mergees[t] # <<>>}

\* The copies handed to the workers by Mergees: each of ids is in the list of
\* exactly one worker, once
HandedOutOnce(Mergees, ids) ==
  \A id \in ids :
    \E t \in DOMAIN Mergees :
      /\ Cardinality({i \in 1..Len(Mergees[t]) : Mergees[t][i] = id}) = 1
      /\ \A u \in DOMAIN Mergees \ {t} : id \notin Range(Mergees[u])

\* The bulk solver called on n copies
HandOut(n) == roundRobin([i \in 1..n |-> i], 0, NoMT.Mergees)

\* The objects a step changed or freed
Written == {id \in DOMAIN heap : id \notin DOMAIN heap' \/ heap'[id] # heap[id]}

\* C17: during solveLeastMT at most T = 16 workers run, every copy is
\* assigned to exactly one worker (also when there are more copies than
\* workers), a step of a worker writes only one of that worker's own copies,
\* and the shared solutions (default, default-sinks and the per-kind
\* originals) are never written while the call runs nor when it returns,
\* under every interleaving.
C17_WorkersDisjoint ==
  /\ [](/\ \A n \in {T - 1, T, T + 1, 2 * T + 1} :
             /\ HandedOutOnce(HandOut(n), 1..n)
             /\ \A t \in 0..(T - 1) : Range(HandOut(n)[t]) \subseteq 1..n
             /\ DOMAIN HandOut(n) = 0..(T - 1)
        /\ mt.running =>
             /\ Cardinality(Workers) <= T
             /\ HandedOutOnce(mt.Mergees, Range(mt.Merged))
             /\ \A t \in Workers : Range(mt.Mergees[t]) \subseteq Range(mt.Merged)
             /\ {mt.Default, mt.DefaultSinks} \cap Range(mt.Merged) = {}
             /\ \A k \in DOMAIN leastSolutions :
                  leastSolutions[k] \notin Range(mt.Merged))
  /\ [][mt.running =>
          /\ Written \subseteq Range(mt.Merged)
          /\ mt'.running =>
               \E t \in Workers :
                 /\ mt.next[t] <= Len(mt.Mergees[t])
                 /\ Written \subseteq {mt.Mergees[t][mt.next[t]]}
                 /\ \A u \in Workers \ {t} :
                      /\ mt'.next[u] = mt.next[u]
                      /\ mt'.sinksPending[u] = mt.sinksPending[u]]_vars

\* Two workers, the first has merged default into its copy and changed it
C17_Witness ==
  /\ mt.running
  /\ Cardinality(Workers) = 2
  /\ mt.useDefaultSinks
  /\ mt.sinksPending[0]
  /\ mt.next[1] = 1
  /\ \E v \in Vars : isChanged(heap, mt.Mergees[0][1], v)
                       /\ ~isChanged(heap, leastSolutions[mt.kinds[2]], v)


(***************************************************************************)
(* SpecTerm: the loops of both solvers, one iteration per step.  The       *)
(* worklist solver runs LHConsSoln::solve on the whole list.  The          *)
(* propagation solver runs as leastSolution and greatestSolution run it on *)
(* two kinds: a PartialSolution is constructed on the first sol.split      *)
(* constraints and one on the rest (each constructor ends in propagate),   *)
(* the first is copied and the second merged into the copy (mergeIn ends   *)
(* The loops are sequential code that runs until it returns, so every step *)
(* that can be taken is taken: weak fairness of the next-step relation.    *)
(***************************************************************************)
Solvers == {"LHConsSoln", "PartialSolution"}

\* The constraints a list is made of: chains, a cycle through a join, and
\* the constants on either side
TermPool == <<LHConstraint(high, newVar(1)),
              LHConstraint(newVar(1), newVar(2)),
              LHConstraint(newVar(2), newVar(3)),
              LHConstraint(newVar(3), newVar(1)),
              LHConstraint(newVar(3), low),
              LHConstraint(LHJoin({newVar(1), newVar(2)}), newVar(3))>>

TermCons(idx) == PickAt(TermPool, idx)

InitTerm ==
  /\ constraints = <<>>
  /\ lockedConstraintKinds = {}
  /\ leastSolutions = <<>>
  /\ greatestSolutions = <<>>
  /\ heap = <<>>
  /\ fatal = "none"
  /\ added = [k \in Kinds |-> <<>>]
  /\ requested = {}
  /\ lastCall = NoCall
  /\ result = NoResult
  /\ mt = NoMT
  /\ nAdds = 0
  /\ nSolves = 0
  /\ inf = NoInf
  /\ joins = NoJoins
  /\ ipa = NoIpa
  /\ sol = [phase |-> "term", solver |-> "none", cs |-> <<>>,
            initial |-> FALSE, split |-> 0, pc |-> "build",
            self |-> NULL, objs |-> <<>>, changed |-> {},
            queue |-> <<>>, workList |-> <<>>]

TermKitUnchanged ==
  UNCHANGED <<constraints, lockedConstraintKinds, leastSolutions,
              greatestSolutions, fatal, added, requested, lastCall, result,
              mt, nAdds, nSolves, inf, joins, ipa>>

\* The client puts one more constraint on the list
pushConstraint(c) ==
  /\ sol.phase = "term" /\ sol.pc = "build"
  /\ Len(sol.cs) < MaxCons
  /\ sol' = [sol EXCEPT !.cs = Append(@, c)]
  /\ UNCHANGED heap
  /\ TermKitUnchanged

\* The client asks a solver for the least (initial = FALSE) or the greatest
\* solution of the list; the propagation solver gets the first split
\* constraints as one kind and the rest as another
startSolver(solver, initial, split) ==
  /\ sol.phase = "term" /\ sol.pc = "build"
  /\ solver = "LHConsSoln" => split = Len(sol.cs)
  /\ sol' = [sol EXCEPT !.solver = solver, !.initial = initial,
                        !.split = split, !.pc = "start"]
  /\ UNCHANGED heap
  /\ TermKitUnchanged

\* LHConsSoln::solve up to the loop: "solved = true;
\* enqueueConstraints(*constraints)"
solveEnter ==
  /\ sol.phase = "term" /\ sol.solver = "LHConsSoln" /\ sol.pc = "start"
  /\ sol' = [sol EXCEPT
               !.pc = "loop",
               !.queue = enqueueConstraints(<<>>,
                                            [i \in 1..Len(sol.cs) |-> i])]
  /\ UNCHANGED heap
  /\ TermKitUnchanged

solveIterate(st) ==
  sol' = [sol EXCEPT
            !.changed = st.changed,
            !.queue = st.queue]

\* One iteration of "while (!queue.empty())" of LHConsSoln::solve
solveIteration ==
  /\ sol.phase = "term" /\ sol.pc = "loop"
  /\ sol.queue # <<>>
  /\ solveIterate(solveStep(TermCons(sol.cs), sol.initial, Head(sol.queue),
                            [changed |-> sol.changed,
                             queue |-> Tail(sol.queue)]))
  /\ UNCHANGED heap
  /\ TermKitUnchanged

\* The loop of LHConsSoln::solve left: "delete constraints; releaseMemory()"
solveExit ==
  /\ sol.phase = "term" /\ sol.pc = "loop"
  /\ sol.queue = <<>>
  /\ sol' = [sol EXCEPT !.pc = "done"]
  /\ UNCHANGED heap
  /\ TermKitUnchanged

\* propagate up to its loop, on the object self of the heap h
propagateEnter(h, self, pc) ==
  /\ heap' = h
  /\ sol' = [sol EXCEPT
               !.pc = "propagate",
               !.self = self,
               !.objs = IF pc = "merge" THEN @ ELSE Append(@, self),
               !.workList = seedWorkList(h, self, h[self].VSet,
                                         SetToSeq(h[self].Chained))]

constructEnter(id, ini) ==
  propagateEnter(heap @@ (id :> [P |-> ini.P, VSet |-> ini.VSet,
                                 Chained |-> {id}, initial |-> sol.initial]),
                 id, sol.pc)

\* PartialSolution(C, initial) up to the loop of propagate: initialize runs
\* and the worklist is seeded
construct(id) ==
  /\ sol.phase = "term" /\ sol.solver = "PartialSolution"
  /\ sol.pc \in {"start", "second"}
  /\ constructEnter(id,
       initialize(TermCons(IF sol.pc = "start"
                         THEN SubSeq(sol.cs, 1, sol.split)
                         ELSE SubSeq(sol.cs, sol.split + 1, Len(sol.cs))),
                  sol.initial))
  /\ TermKitUnchanged

propagateIterate(self, r) ==
  /\ heap' = [heap EXCEPT ![self].VSet = r.VSet]
  /\ sol' = [sol EXCEPT
               !.workList = r.workList]

\* One iteration of "while (!workList.empty())" of propagate
propagateIteration ==
  /\ sol.phase = "term" /\ sol.pc = "propagate"
  /\ sol.workList # <<>>
  /\ propagateIterate(sol.self,
       applyUpdates(heap, heap[sol.self].Chained, sol.self,
                    updatesOf(heap, sol.self, heap[sol.self].P,
                              SetToSeq(heap[sol.self].Chained))
                      [Head(sol.workList)],
                    heap[sol.self].VSet, Tail(sol.workList)))
  /\ TermKitUnchanged

\* propagate returns, and with it the constructor or mergeIn that called it
propagateExit ==
  /\ sol.phase = "term" /\ sol.pc = "propagate"
  /\ sol.workList = <<>>
  /\ sol' = [sol EXCEPT !.pc = CASE Len(sol.objs) = 1 -> "second"
                                 [] sol.self = sol.objs[2] -> "copy"
                                 [] OTHER -> "done"]
  /\ UNCHANGED heap
  /\ TermKitUnchanged

\* "PS = new PartialSolution(*P)" on the first kind's solution
copy(id) ==
  /\ sol.phase = "term" /\ sol.pc = "copy"
  /\ heap' = heap @@ (id :> CopyPartialSolution(heap, id, sol.objs[1]))
  /\ sol' = [sol EXCEPT !.pc = "merge", !.self = id]
  /\ TermKitUnchanged

\* "PS->mergeIn(*P)" on the second kind's solution, up to the loop of
\* propagate
mergeInEnter ==
  /\ sol.phase = "term" /\ sol.pc = "merge"
  /\ propagateEnter(
       [heap EXCEPT ![sol.self] =
          mergeInNoPropagate(heap, sol.self, @,
                             @.Chained \cup heap[sol.objs[2]].Chained)],
       sol.self, sol.pc)
  /\ TermKitUnchanged

NextTerm ==
  \/ \E c \in DOMAIN TermPool : pushConstraint(c)
  \/ \E solver \in Solvers, initial \in BOOLEAN, split \in 0..Len(sol.cs) :
       startSolver(solver, initial, split)
  \/ solveEnter
  \/ solveIteration
  \/ solveExit
  \/ \E id \in Ends(Free(heap)) : construct(id)
  \/ propagateIteration
  \/ propagateExit
  \/ \E id \in Ends(Free(heap)) : copy(id)
  \/ mergeInEnter

SpecTerm == InitTerm /\ [][NextTerm]_vars /\ WF_vars(NextTerm)

\* The changed set of the worklist solver and the VSet of every
\* PartialSolution after a step hold what they held before it
VSetsGrow ==
  /\ sol.changed \subseteq sol'.changed
  /\ \A id \in DOMAIN heap :
       id \in DOMAIN heap' /\ heap[id].VSet \subseteq heap'[id].VSet

\* A variable has one of two values in a solution, so it changes twice only
\* by returning to the default value: no step takes the value a variable
\* has in the worklist solver or in a PartialSolution back to the default
ChangesAtMostOnce ==
  \A v \in Vars :
    /\ v \in sol.changed => v \in sol'.changed
    /\ \A id \in DOMAIN heap \cap DOMAIN heap' :
         Valuation(heap, id, heap[id])[v] # boolToLHC(heap[id].initial)
           => Valuation(heap', id, heap'[id])[v] # boolToLHC(heap'[id].initial)

Terminated == sol.pc = "done" /\ sol.queue = <<>> /\ sol.workList = <<>>

\* C18: both solvers terminate on every constraint list: no step takes a
\* variable out of the changed set (VSet), no variable changes its value in
\* a solution more than once, and every run reaches the end of the solver
\* with an empty worklist
C18_SolversTerminate ==
  /\ [][VSetsGrow]_vars
  /\ [][ChangesAtMostOnce]_vars
  /\ <>Terminated

\* A solver has finished with more than one variable changed; the merged
\* PartialSolution changed a variable that neither kind changed alone
C18_Witness ==
  /\ Terminated
  /\ \/ sol.solver = "LHConsSoln" /\ Cardinality(sol.changed) > 1
     \/ /\ sol.solver = "PartialSolution"
        /\ heap[sol.self].VSet # {}
        /\ Cardinality(heap[sol.self].Chained) > 2


(***************************************************************************)
(* SpecFlow: Infoflow::constrainFlowRecord on records with value sources   *)
(* and value sinks, explicit or implicit, with the option DepsDropAtSink   *)
(* on or off.  inf.DepsDropAtSink is the command line option and           *)
(* inf.sinkValues the values sourceSinkAnalysis->valueIsSink holds for;    *)
(* both are fixed for a run.  inf.record is the record lowered last.       *)
(***************************************************************************)
\* The order of the values in a set of a record (the order of their
\* addresses)
ValueOrder == <<"x", "y">>
InValueSet(S) == LET Test(v) == v \in S IN SelectSeq(ValueOrder, Test)

FlowRecord(implicit, sources, sinks) ==
  [implicit |-> implicit, sources |-> sources, sinks |-> sinks]

\* The sources of the record that go to Sources (sink = FALSE) and to
\* sinkSources (sink = TRUE)
sourcesOf(DepsDropAtSink, sinkValues, record, sink) ==
  {source \in record.sources :
     (~DepsDropAtSink \/ source \notin sinkValues) = ~sink}

\* The loop over the value sources: getOrCreateConsElem for each
RECURSIVE createSourceElems(_, _)
createSourceElems(S, sources) ==
  IF sources = <<>> THEN S
  ELSE createSourceElems(getOrCreateConsElem(S, Head(sources)), Tail(sources))

\* "kit->upperBound(Sources)": the join of the elements of the values
upperBoundOf(S, values) ==
  LHJoin({newVar(S.I.valueConstraintMap[v]) : v \in values})

\* "if (regFlow) putOrConstrainConsElem(implicit, false, ...)"
constrainReg(S, implicit, sink, Sources) ==
  IF Sources # {}
  THEN putOrConstrainConsElem(S, implicit, FALSE, sink,
                              upperBoundOf(S, Sources))
  ELSE S

\* "if (sinkFlow) putOrConstrainConsElem(implicit, true, ...)"
constrainSink(S, implicit, sink, sinkSources) ==
  IF sinkSources # {}
  THEN putOrConstrainConsElem(S, implicit, TRUE, sink,
                              upperBoundOf(S, sinkSources))
  ELSE S

\* The loop of constrainFlowRecord over the value sinks
RECURSIVE constrainRecordSinks(_, _, _, _, _)
constrainRecordSinks(S, implicit, Sources, sinkSources, sinks) ==
  IF sinks = <<>> THEN S
  ELSE constrainRecordSinks(
         constrainSink(constrainReg(S, implicit, Head(sinks), Sources),
                       implicit, Head(sinks), sinkSources),
         implicit, Sources, sinkSources, Tail(sinks))

\* Infoflow::constrainFlowRecord(record)
constrainRecordOn(S, DepsDropAtSink, sinkValues, record) ==
  constrainRecordSinks(
    createSourceElems(S, InValueSet(record.sources)),
    record.implicit,
    sourcesOf(DepsDropAtSink, sinkValues, record, FALSE),
    sourcesOf(DepsDropAtSink, sinkValues, record, TRUE),
    InValueSet(record.sinks))

InitFlow ==
  /\ constraints = <<>>
  /\ lockedConstraintKinds = {}
  /\ leastSolutions = <<>>
  /\ greatestSolutions = <<>>
  /\ heap = <<>>
  /\ fatal = "none"
  /\ added = [k \in Kinds |-> <<>>]
  /\ requested = {}
  /\ lastCall = NoCall
  /\ result = NoResult
  /\ mt = NoMT
  /\ nAdds = 0
  /\ nSolves = 0
  /\ sol = NoSol
  /\ joins = NoJoins
  /\ ipa = NoIpa
  /\ \E DepsDropAtSink \in BOOLEAN, sinkValues \in SUBSET Values :
       inf = [phase |-> "flow",
              summarySourceValueConstraintMap |-> [v \in Values |-> NoVar],
              summarySinkValueConstraintMap |-> [v \in Values |-> NoVar],
              valueConstraintMap |-> [v \in Values |-> NoVar],
              nVars |-> 0, nFlows |-> 0, nTaints |-> 0,
              tainted |-> {}, untainted |-> {}, flows |-> {},
              DepsDropAtSink |-> DepsDropAtSink, sinkValues |-> sinkValues,
              record |-> FlowRecord(FALSE, {}, {})]

recordReturn(S, record) ==
  /\ SetKit(S.K)
  /\ inf' = [S.I EXCEPT !.nFlows = @ + 1, !.record = record]

\* A unit's analysis lowers one flow record, FlowRecord(implicit, sources,
\* sinks)
lowerRecord(implicit, sources, sinks) ==
  /\ Running
  /\ inf.phase = "flow"
  /\ inf.nFlows < MaxFlows
  /\ recordReturn(constrainRecordOn(Info, inf.DepsDropAtSink, inf.sinkValues,
                                    FlowRecord(implicit, sources, sinks)),
                  FlowRecord(implicit, sources, sinks))
  /\ lastCall' = [op |-> "constrainFlowRecord", kinds |-> <<>>]
  /\ UNCHANGED <<added, requested, result, mt, nAdds, nSolves, sol, joins,
                 ipa>>

NextFlow ==
  \E implicit \in BOOLEAN, sources \in SUBSET Values, sinks \in SUBSET Values :
    lowerRecord(implicit, sources, sinks)

SpecFlow == InitFlow /\ [][NextFlow]_vars

\* The constraints a step appended to the list of kind
Appended(kind) ==
  IF kind \notin DOMAIN constraints' THEN {}
  ELSE IF kind \notin DOMAIN constraints THEN Range(constraints'[kind])
  ELSE {constraints'[kind][i] :
          i \in (Len(constraints[kind]) + 1)..Len(constraints'[kind])}

\* The constraint the lowered record puts between source and sink
flowOf(source, sink) ==
  LHConstraint(newVar(inf'.valueConstraintMap[source]),
               newVar(inf'.valueConstraintMap[sink]))

MaxLevel == 1       \* the top of the chain of inputs and outputs
MaxCalls == 2       \* getAnalysisResult calls of one runOnContext
MaxRuns == 3        \* processAnalysisUnit calls in one run of the pass

\* The functions of the module with a body, in the order of their addresses
UnitOrder == <<"f", "g", "main">>
Units == Range(UnitOrder)
InUnitSet(S) == LET Test(u) == u \in S IN SelectSeq(UnitOrder, Test)
Levels == 0..MaxLevel

AnalysisRecord(in, out) == [in |-> in, out |-> out]

\* InterProcWorkQueue::enqueue(unit)
enqueue(queue, unit) ==
  IF unit \in Range(queue) THEN queue ELSE Append(queue, unit)

\* InterProcWorkQueue::enqueue(start, end)
RECURSIVE enqueueRange(_, _)
enqueueRange(queue, units) ==
  IF units = <<>> THEN queue
  ELSE enqueueRange(enqueue(queue, Head(units)), Tail(units))

\* InterProcAnalysisPass::requestProcessing(unit, input) while cur is
\* analysed
requestProcessing(R, cur, unit, input) ==
  [R EXCEPT
     !.analysisRecords[unit] =
        AnalysisRecord(IF input <= @.in THEN @.in ELSE input, @.out),
     !.dependencies[unit] = @ \cup {cur},
     !.workQueue = enqueue(@, unit)]

\* "analysisRecords[unit] = AnalysisRecord<I,O>(bottomInput())"
createRecord(R, unit) ==
  [R EXCEPT !.analysisRecords = @ @@ (unit :> AnalysisRecord(0, 0))]

\* getAnalysisResult without "if (validOutput && input <= rec.input())":
\* every call requests processing
getAnalysisResultRequesting(R, cur, unit, input) ==
  IF unit \notin DOMAIN R.analysisRecords
  THEN requestProcessing(createRecord(R, unit), cur, unit, input)
  ELSE requestProcessing(R, cur, unit, input)

\* InterProcAnalysisPass::getAnalysisResult(unit, input) while cur is
\* analysed: the state it leaves
getAnalysisResult(R, cur, unit, input) ==
  IF unit \notin DOMAIN R.analysisRecords
  THEN requestProcessing(createRecord(R, unit), cur, unit, input)
  ELSE IF input <= R.analysisRecords[unit].in
  THEN R
  ELSE requestProcessing(R, cur, unit, input)

\* R.stored[unit] is the greatest input requestProcessing has stored in the
\* record of unit so far: the input the record holds when the call returns
noteStored(R, unit) ==
  [R EXCEPT !.stored[unit] = IF R.analysisRecords[unit].in <= @ THEN @
                             ELSE R.analysisRecords[unit].in]

\* The calls runOnContext makes for the unit cur
RECURSIVE runOnContextCalls(_, _, _)
runOnContextCalls(R, cur, calls) ==
  IF calls = <<>> THEN R
  ELSE runOnContextCalls(
         noteStored(
           [getAnalysisResult(R, cur, Head(calls)[1], Head(calls)[2])
              EXCEPT !.called = @ \cup {<<cur, Head(calls)[1]>>}],
           Head(calls)[1]),
         cur, Tail(calls))

\* processAnalysisUnit after runOnContext returned output and left R
recordOutput(R, unit, prevOutput, input, output) ==
  [R EXCEPT
     !.analyzedFunctions = @ \cup {unit},
     !.analysisRecords[unit] = AnalysisRecord(input, output),
     !.workQueue = IF prevOutput # output
                   THEN enqueueRange(@, InUnitSet(R.dependencies[unit]))
                   ELSE @,
     !.changed = prevOutput # output,
     !.last = unit,
     !.nRuns = @ + 1]

\* InterProcAnalysisPass::processAnalysisUnit(unit), with the calls and the
\* output of runOnContext
processAnalysisUnitOn(R, unit, calls, output) ==
  recordOutput(runOnContextCalls(R, unit, calls), unit,
               R.analysisRecords[unit].out, R.analysisRecords[unit].in,
               output)

\* "analysisRecords[*item] = AnalysisRecord<I,O>(initInput);
\* workQueue.enqueue(*item)" for the start items
RECURSIVE addItems(_, _)
addItems(R, items) ==
  IF items = <<>> THEN R
  ELSE addItems(
         [R EXCEPT
            !.analysisRecords =
               (Head(items) :> AnalysisRecord(0, 0)) @@ @,
            !.workQueue = enqueue(@, Head(items))],
         Tail(items))

InitIPA ==
  /\ constraints = <<>>
  /\ lockedConstraintKinds = {}
  /\ leastSolutions = <<>>
  /\ greatestSolutions = <<>>
  /\ heap = <<>>
  /\ fatal = "none"
  /\ added = [k \in Kinds |-> <<>>]
  /\ requested = {}
  /\ lastCall = NoCall
  /\ result = NoResult
  /\ mt = NoMT
  /\ nAdds = 0
  /\ nSolves = 0
  /\ sol = NoSol
  /\ inf = NoInf
  /\ joins = NoJoins
  /\ ipa = [phase |-> "init", workQueue |-> <<>>, analysisRecords |-> <<>>,
            dependencies |-> [u \in Units |-> {}], analyzedFunctions |-> {},
            called |-> {}, changed |-> FALSE, last |-> "main", nRuns |-> 0,
            stored |-> [u \in Units |-> 0]]

IPAOnly ==
  UNCHANGED <<constraints, lockedConstraintKinds, leastSolutions,
              greatestSolutions, heap, fatal, added, requested, lastCall,
              result, mt, nAdds, nSolves, sol, inf, joins>>

\* runOnModule up to the first loop: addStartItemsToWorkQueue for a module
\* with a main function
addStartItemsToWorkQueue ==
  /\ ipa.phase = "init"
  /\ ipa' = [addItems(ipa, <<"main">>) EXCEPT !.phase = "first"]
  /\ IPAOnly

\* One iteration of "while (!workQueue.empty())":
\* processAnalysisUnit(workQueue.dequeue())
processAnalysisUnit(calls, output) ==
  /\ ipa.phase \in {"first", "second"}
  /\ ipa.workQueue # <<>>
  /\ ipa.nRuns < MaxRuns
  /\ ipa' = processAnalysisUnitOn([ipa EXCEPT !.workQueue = Tail(@)],
                                  Head(ipa.workQueue), calls, output)
  /\ IPAOnly

\* The first loop is left: addUnanalyzedFunctionsToWorkQueue
addUnanalyzedFunctionsToWorkQueue ==
  /\ ipa.phase = "first"
  /\ ipa.workQueue = <<>>
  /\ ipa' = [addItems(ipa, InUnitSet(Units \ ipa.analyzedFunctions))
               EXCEPT !.phase = "second", !.changed = FALSE]
  /\ IPAOnly

\* The second loop is left: runOnModule returns
runOnModuleReturn ==
  /\ ipa.phase = "second"
  /\ ipa.workQueue = <<>>
  /\ ipa' = [ipa EXCEPT !.phase = "done", !.changed = FALSE]
  /\ IPAOnly

Calls == UNION {[1..n -> Units \X Levels] : n \in 0..MaxCalls}

NextIPA ==
  \/ addStartItemsToWorkQueue
  \/ \E calls \in Calls, output \in Levels : processAnalysisUnit(calls, output)
  \/ addUnanalyzedFunctionsToWorkQueue
  \/ runOnModuleReturn

SpecIPA == InitIPA /\ [][NextIPA]_vars

\* Every unit that asked for V's result is in dependencies[V]
CallersRecorded ==
  \A pair \in ipa.called : pair[1] \in ipa.dependencies[pair[2]]

\* A step that changes the summary of a unit leaves every unit that asked
\* for that summary before in the work queue
CallersRequeued ==
  (ipa'.nRuns # ipa.nRuns /\ ipa'.changed) =>
    \A pair \in ipa.called :
      pair[2] = ipa'.last => pair[1] \in Range(ipa'.workQueue)

\* C20: every unit U that calls getAnalysisResult on a unit V during its
\* analysis is in dependencies[V], whether or not V had a record with a
\* sufficient input, and a later change of V's summary puts U back in the
\* work queue
C20_CallersRecorded ==
  /\ []CallersRecorded
  /\ [][CallersRequeued]_vars

\* C30: the input stored in a unit's analysis record never decreases.
\* Once requestProcessing has stored the join of the requested and the
\* recorded input for a unit, also for a request the unit makes for itself
\* while it is analysed, the record keeps an input at or above that join,
\* so every later analysis of the unit runs with such an input
C30_InputNeverDecreases ==
  \A unit \in DOMAIN ipa.analysisRecords :
    ipa.stored[unit] <= ipa.analysisRecords[unit].in


(***************************************************************************)
(* SpecProg: Infoflow run by the inter-procedural driver on a module.  A   *)
(* module is a record: its functions in address order, the start functions *)
(* (main, or without a main the functions with external linkage), the      *)
(* parameters and basic blocks of each function and the instructions of    *)
(* each block.  A context is the sequence of caller functions a            *)
(* CallerContext holds, <<>> being DefaultID; an analysis unit is a pair   *)
(* <<context, function>>.  The option deps-drop-sink-flows has its initial *)
(* value, false, the options deps-collapse-external and                    *)
(* deps-collapse-indirect theirs, true, and every function the call graph  *)
(* names has a body, so that no call uses a signature.  After runOnModule   *)
(* a client declares values tainted and asks for                           *)
(* a least solution; inf.solution keeps what that solution answers.        *)
(***************************************************************************)
ContextDepth == 1   \* K of CallSensitiveAnalysisPass<Unit, Unit, 1, CallerContext>

Inst(op, value, operands, succs, callee) ==
  [op |-> op, value |-> value, operands |-> operands, succs |-> succs,
   callee |-> callee]

\* A PHI node: its operands are the incoming values
PHINode(value, operands) == Inst("phi", value, operands, <<>>, "")
\* A branch: its operand is the condition, if it has one
BranchInst(value, cond, succs) == Inst("br", value, cond, succs, "")
ReturnInst(value, operands) == Inst("ret", value, operands, <<>>, "")
\* A call: its operands are the arguments and callee is the called value,
\* a function of the module (a direct call) or a function pointer
CallInst(value, callee, args) == Inst("call", value, args, <<>>, callee)
FenceInst(value) == Inst("fence", value, <<>>, <<>>, "")
\* A call of the intrinsic llvm.memset(dest, val, len, align)
MemsetInst(value, args) == Inst("memset", value, args, <<>>, "llvm.memset")

\* main(c) { if (c) { y = 1; } else { y = 2; } return y; } with y a PHI node
Diamond ==
  [functions |-> <<"main">>,
   root |-> <<"main">>,
   params |-> ("main" :> <<"c">>),
   blocks |-> ("main" :> <<"entry", "then", "else", "merge">>),
   insts |-> ("entry" :> <<BranchInst("br.c", <<"c">>, <<"then", "else">>)>>)
          @@ ("then" :> <<BranchInst("br.then", <<>>, <<"merge">>)>>)
          @@ ("else" :> <<BranchInst("br.else", <<>>, <<"merge">>)>>)
          @@ ("merge" :> <<PHINode("y", <<"one", "two">>),
                           ReturnInst("main.ret", <<"y">>)>>),
   callGraph |-> <<>>, externalCalling |-> {"main"}, locs |-> <<>>, varArg |-> {}]

\* main(a, b) { r1 = helper(a); r2 = helper(b); }  helper(p) { return p; }
SameCaller ==
  [functions |-> <<"helper", "main">>,
   root |-> <<"main">>,
   params |-> ("main" :> <<"a", "b">>) @@ ("helper" :> <<"p">>),
   blocks |-> ("main" :> <<"main.entry">>) @@ ("helper" :> <<"helper.entry">>),
   insts |-> ("main.entry" :> <<CallInst("r1", "helper", <<"a">>),
                                CallInst("r2", "helper", <<"b">>),
                                ReturnInst("main.ret", <<>>)>>)
          @@ ("helper.entry" :> <<ReturnInst("helper.ret", <<"p">>)>>),
   callGraph |-> <<>>, externalCalling |-> {"main"}, locs |-> <<>>, varArg |-> {}]

\* f1(a) { return helper(a); }  f2(b) { return helper(b); }
\* static helper(p) { return p; }  and no main
TwoCallers ==
  [functions |-> <<"f1", "f2", "helper">>,
   root |-> <<"f1", "f2">>,
   params |-> ("f1" :> <<"a">>) @@ ("f2" :> <<"b">>) @@ ("helper" :> <<"p">>),
   blocks |-> ("f1" :> <<"f1.entry">>) @@ ("f2" :> <<"f2.entry">>)
           @@ ("helper" :> <<"helper.entry">>),
   insts |-> ("f1.entry" :> <<CallInst("r1", "helper", <<"a">>),
                              ReturnInst("f1.ret", <<"r1">>)>>)
          @@ ("f2.entry" :> <<CallInst("r2", "helper", <<"b">>),
                              ReturnInst("f2.ret", <<"r2">>)>>)
          @@ ("helper.entry" :> <<ReturnInst("helper.ret", <<"p">>)>>),
   callGraph |-> <<>>, externalCalling |-> {"f1", "f2"}, locs |-> <<>>, varArg |-> {}]

\* main(c) { if (c) { x(); <new block> y(); } return; }: the block inner is
\* reached through the block then only
Nested ==
  [functions |-> <<"main">>,
   root |-> <<"main">>,
   params |-> ("main" :> <<"c">>),
   blocks |-> ("main" :> <<"entry", "then", "inner", "else", "merge">>),
   insts |-> ("entry" :> <<BranchInst("br.c", <<"c">>, <<"then", "else">>)>>)
          @@ ("then" :> <<BranchInst("br.then", <<>>, <<"inner">>)>>)
          @@ ("inner" :> <<BranchInst("br.inner", <<>>, <<"merge">>)>>)
          @@ ("else" :> <<BranchInst("br.else", <<>>, <<"merge">>)>>)
          @@ ("merge" :> <<ReturnInst("main.ret", <<>>)>>),
   callGraph |-> <<>>, externalCalling |-> {"main"}, locs |-> <<>>, varArg |-> {}]

\* main(fp, a) { r1 = (*fp)(a); r2 = (*fp)(a); }
\* handler(p) { t = handler(p); return t; }  static orphan(q) { return q; }
\* The call graph gives the call r1 the external calling node, which
\* calls handler and main, and resolves the call r2 to handler
Indirect ==
  [functions |-> <<"handler", "main", "orphan">>,
   root |-> <<"main">>,
   params |-> ("main" :> <<"fp", "a">>) @@ ("handler" :> <<"p">>)
           @@ ("orphan" :> <<"q">>),
   blocks |-> ("main" :> <<"main.entry">>)
           @@ ("handler" :> <<"handler.entry">>)
           @@ ("orphan" :> <<"orphan.entry">>),
   insts |-> ("main.entry" :> <<CallInst("r1", "fp", <<"a">>),
                                CallInst("r2", "fp", <<"a">>),
                                ReturnInst("main.ret", <<>>)>>)
          @@ ("handler.entry" :> <<CallInst("t", "handler", <<"p">>),
                                   ReturnInst("handler.ret", <<"t">>)>>)
          @@ ("orphan.entry" :> <<ReturnInst("orphan.ret", <<"q">>)>>),
   callGraph |-> ("r1" :> {"externalCalling"}) @@ ("r2" :> {"handler"}),
   externalCalling |-> {"handler", "main"}, locs |-> <<>>, varArg |-> {}]

\* main(a, d) { r1 = fill(d, a); }
\* fill(dst, v) { memset(dst, v, len, align); return dst; }
\* d and dst point to the abstract location buf
Memset ==
  [functions |-> <<"fill", "main">>,
   root |-> <<"main">>,
   params |-> ("main" :> <<"a", "d">>) @@ ("fill" :> <<"dst", "v">>),
   blocks |-> ("main" :> <<"main.entry">>) @@ ("fill" :> <<"fill.entry">>),
   insts |-> ("main.entry" :> <<CallInst("r1", "fill", <<"d", "a">>),
                                ReturnInst("main.ret", <<>>)>>)
          @@ ("fill.entry" :> <<MemsetInst("memset",
                                           <<"dst", "v", "len", "align">>),
                                ReturnInst("fill.ret", <<"dst">>)>>),
   callGraph |-> <<>>, externalCalling |-> {"main"},
   locs |-> ("d" :> {"buf"}) @@ ("dst" :> {"buf"}), varArg |-> {}]

\* main(a) { fence; return a; }
Fenced ==
  [functions |-> <<"main">>,
   root |-> <<"main">>,
   params |-> ("main" :> <<"a">>),
   blocks |-> ("main" :> <<"main.entry">>),
   insts |-> ("main.entry" :> <<FenceInst("fence"),
                                ReturnInst("main.ret", <<"a">>)>>),
   callGraph |-> <<>>, externalCalling |-> {"main"}, locs |-> <<>>, varArg |-> {}]

\* main(a, b) { r1 = logf(a, b); }  logf(fmt, ...) { return fmt; }
VarArgs ==
  [functions |-> <<"logf", "main">>,
   root |-> <<"main">>,
   params |-> ("main" :> <<"a", "b">>) @@ ("logf" :> <<"fmt">>),
   blocks |-> ("main" :> <<"main.entry">>) @@ ("logf" :> <<"logf.entry">>),
   insts |-> ("main.entry" :> <<CallInst("r1", "logf", <<"a", "b">>),
                                ReturnInst("main.ret", <<>>)>>)
          @@ ("logf.entry" :> <<ReturnInst("logf.ret", <<"fmt">>)>>),
   callGraph |-> <<>>, externalCalling |-> {"main"}, locs |-> <<>>,
   varArg |-> {"logf"}]

ProgramNames ==
  {"diamond", "sameCaller", "twoCallers", "nested", "indirect", "memset",
   "fenced", "varargs"}
Program(name) ==
  CASE name = "diamond" -> Diamond
    [] name = "sameCaller" -> SameCaller
    [] name = "twoCallers" -> TwoCallers
    [] name = "nested" -> Nested
    [] name = "indirect" -> Indirect
    [] name = "memset" -> Memset
    [] name = "fenced" -> Fenced
    [] name = "varargs" -> VarArgs

\* The values of the modules, in the order of their addresses
ProgValueOrder ==
  <<"a", "b", "c", "p", "one", "two", "y", "r1", "r2",
    "entry", "then", "else", "merge", "main.entry", "f1.entry", "f2.entry",
    "helper.entry", "main.ret", "f1.ret", "f2.ret", "helper.ret",
    "f1", "f2", "helper", "main",
    "inner", "fp", "q", "t", "handler.entry", "orphan.entry", "handler.ret",
    "orphan.ret", "handler", "orphan", "d", "dst", "v", "len", "align",
    "memset", "fill.entry", "fill.ret", "fill", "fence", "buf",
    "fmt", "logf.entry", "logf.ret", "logf">>
ProgValues == Range(ProgValueOrder)
InProgValueSet(S) == LET Test(v) == v \in S IN SelectSeq(ProgValueOrder, Test)
ProgFunctions ==
  {"f1", "f2", "helper", "main", "handler", "orphan", "fill", "logf"}
Contexts == {<<>>} \cup {<<f>> : f \in ProgFunctions}
ProgUnits == Contexts \X ProgFunctions

\* The values a client declares tainted: parameters and PHI nodes
Taintable(name) ==
  CASE name = "diamond" -> {"c", "y"}
    [] name = "sameCaller" -> {"a", "b", "p"}
    [] name = "twoCallers" -> {"a", "b", "p"}
    [] name = "nested" -> {"c"}
    [] name = "indirect" -> {"a", "p"}
    [] name = "memset" -> {"a", "v"}
    [] name = "fenced" -> {"a"}
    [] name = "varargs" -> {"b", "logf"}

\* TerminatorInst::getSuccessor of the terminator of bb
successors(P, bb) == P.insts[bb][Len(P.insts[bb])].succs
\* The block ends in a return
returns(P, bb) == P.insts[bb][Len(P.insts[bb])].op = "ret"

\* The blocks reached from the blocks seen on paths that do not enter a
RECURSIVE reachedAvoiding(_, _, _, _)
reachedAvoiding(P, fn, seen, a) ==
  IF seen \cup {s \in Range(P.blocks[fn]) \ {a} :
                  \E b \in seen : s \in Range(successors(P, b))} = seen
  THEN seen
  ELSE reachedAvoiding(
         P, fn,
         seen \cup {s \in Range(P.blocks[fn]) \ {a} :
                      \E b \in seen : s \in Range(successors(P, b))},
         a)

\* PostDominatorTree::dominates(a, b): every path from b to a return of fn
\* goes through a
postDominates(P, fn, a, b) ==
  \/ a = b
  \/ \A e \in reachedAvoiding(P, fn, {b}, a) : ~returns(P, e)

\* The successors pushed for cur, after visited.insert(cur): the test is on
\* cur, not on the successor
pushedSuccessors(P, cur, visited) ==
  IF cur \notin visited THEN successors(P, cur) ELSE <<>>

\* Infoflow::constrainConditionalSuccessors: the sink values it adds
RECURSIVE constrainConditionalSuccessors(_, _, _, _, _, _)
constrainConditionalSuccessors(P, fn, bb, workqueue, visited, sinks) ==
  IF workqueue = <<>> THEN sinks
  ELSE IF ~postDominates(P, fn, Head(workqueue), bb)
  THEN constrainConditionalSuccessors(
         P, fn, bb,
         Tail(workqueue)
           \o pushedSuccessors(P, Head(workqueue),
                               visited \cup {Head(workqueue)}),
         visited \cup {Head(workqueue)}, sinks \cup {Head(workqueue)})
  ELSE constrainConditionalSuccessors(
         P, fn, bb, Tail(workqueue), visited \cup {Head(workqueue)}, sinks)

\* FlowRecord(implicit, sourceContext, sinkContext) with its source and
\* sink values
FlowRecordCtxt(implicit, sourceContext, sinkContext, sources, sinks) ==
  [implicit |-> implicit, sourceContext |-> sourceContext,
   sinkContext |-> sinkContext, sources |-> sources, sinks |-> sinks,
   directPtrSinks |-> {}, vargSinks |-> {}]

\* FlowRecord(implicit): both contexts are DefaultID; with its source
\* values and its direct pointer sinks
FlowRecordDefault(implicit, sources, directPtrSinks) ==
  [implicit |-> implicit, sourceContext |-> <<>>, sinkContext |-> <<>>,
   sources |-> sources, sinks |-> {}, directPtrSinks |-> directPtrSinks,
   vargSinks |-> {}]

\* FlowRecord(false, sourceContext, sinkContext) with its source values and
\* the functions whose variable arguments are its sinks
FlowRecordVarg(sourceContext, sinkContext, sources, vargSinks) ==
  [implicit |-> FALSE, sourceContext |-> sourceContext,
   sinkContext |-> sinkContext, sources |-> sources, sinks |-> {},
   directPtrSinks |-> {}, vargSinks |-> vargSinks]

\* Infoflow::operandsAndPCtoValue
operandsAndPCtoValue(ctxt, bb, inst) ==
  <<FlowRecordCtxt(FALSE, ctxt, ctxt, Range(inst.operands), {inst.value}),
    FlowRecordCtxt(TRUE, ctxt, ctxt, {bb}, {inst.value})>>

\* Infoflow::constrainBranchInst
constrainBranchInst(P, ctxt, fn, bb, inst) ==
  IF inst.operands = <<>> THEN <<>>
  ELSE <<FlowRecordCtxt(
           TRUE, ctxt, ctxt, {bb} \cup Range(inst.operands),
           constrainConditionalSuccessors(P, fn, bb, inst.succs, {}, {}))>>

\* Infoflow::constrainReturnInst
constrainReturnInst(ctxt, bb, inst) ==
  IF inst.operands # <<>> THEN operandsAndPCtoValue(ctxt, bb, inst) ELSE <<>>

\* "while (newContext.size() > K) newContext.pop_front()"
RECURSIVE dropOldest(_)
dropOldest(newContext) ==
  IF Len(newContext) > ContextDepth THEN dropOldest(Tail(newContext))
  ELSE newContext

\* updateIndirectContext taken for updateContext: every callee is analysed
\* in DefaultID
updateContextCollapsed(c, caller) == <<>>

\* CallSensitiveAnalysisPass::updateContext(c, cs), caller being the
\* function CallerContext::push_back takes from the call site cs; the
\* ContextManager gives equal contexts one ContextID
updateContext(c, caller) == dropOldest(Append(c, caller))

\* The flows of constrainCallee from the arguments to the parameters
argFlows(callerContext, calleeContext, params, inst) ==
  [i \in 1..Len(params) |->
     FlowRecordCtxt(FALSE, callerContext, calleeContext, {inst.operands[i]},
                    {params[i]})]

\* The flow of constrainCallee from the arguments beyond the parameters to
\* the variable arguments of the callee
varargFlow(callerContext, calleeContext, callee, params, inst) ==
  IF Len(inst.operands) > Len(params)
  THEN <<FlowRecordVarg(
           callerContext, calleeContext,
           {inst.operands[i] : i \in (Len(params) + 1)..Len(inst.operands)},
           {callee})>>
  ELSE <<>>

\* The flows of constrainCallee from the returns of the callee to the call
retFlows(P, callerContext, calleeContext, callee, inst) ==
  LET Returns(block) == returns(P, block)
      returning == SelectSeq(P.blocks[callee], Returns)
  IN [i \in 1..Len(returning) |->
        FlowRecordCtxt(
          FALSE, calleeContext, callerContext,
          {P.insts[returning[i]][Len(P.insts[returning[i]])].value},
          {inst.value})]

\* Infoflow::constrainCallee(calleeContext, callee, cs, flows), inst.callee
\* being cs.getCalledValue().  The two assertions on the number of
\* arguments hold at every call of the programs: a direct call passes as
\* many arguments as the callee has parameters, more only when the callee
\* takes variable arguments, and functionIsCallable filters the others
constrainCallee(P, callerContext, calleeContext, callee, bb, inst) ==
  <<FlowRecordCtxt(TRUE, callerContext, calleeContext, {bb, inst.callee},
                   {P.blocks[callee][1]})>>
    \o argFlows(callerContext, calleeContext, P.params[callee], inst)
    \o varargFlow(callerContext, calleeContext, callee, P.params[callee],
                  inst)
    \o retFlows(P, callerContext, calleeContext, callee, inst)

\* The options deps-collapse-external and deps-collapse-indirect
collapseExt == TRUE
collapseInd == TRUE

\* CallSensitiveAnalysisPass::updateIndirectContext
updateIndirectContext(c, caller) == <<>>

\* cs.getCalledFunction() is not null
isDirect(P, inst) == inst.callee \in Range(P.functions)
\* CallGraphNode::getFunction() is not null: the node is not one of the two
\* nodes the call graph has for external callers and external callees
hasFunction(node) == node \notin {"externalCalling", "callsExternal"}
isDeclaration(P, function) == function \notin Range(P.functions)

\* CallSensitiveAnalysisPass::functionIsCallable; DSA's filter lets every
\* function with a fitting number of parameters pass
functionIsCallable(P, inst, function) ==
  /\ Len(inst.operands) >= Len(P.params[function])
  /\ function \in P.varArg
       \/ Len(inst.operands) = Len(P.params[function])

\* The nodes the call graph records for the call site of the caller
calleeNodes(P, inst) == P.callGraph[inst.value]

indirectContext(ctxt, fn) ==
  IF collapseInd THEN updateIndirectContext(ctxt, fn)
  ELSE updateContext(ctxt, fn)
externalContext(ctxt, fn) ==
  IF collapseExt THEN updateIndirectContext(ctxt, fn)
  ELSE updateContext(ctxt, fn)

\* The units <<context, function>> for the functions of S with a body
\* that the call can invoke, in the order of their addresses
unitsFor(P, inst, context, S) ==
  LET Test(f) == /\ f \in S
                 /\ functionIsCallable(P, inst, f)
                 /\ ~isDeclaration(P, f)
      functions == SelectSeq(P.functions, Test)
  IN [i \in 1..Len(functions) |-> <<context, functions[i]>>]

\* CallSensitiveAnalysisPass::getCallResult(cs, input): the units it asks
\* getAnalysisResult for, in the order of the calls.  The first loop sets
\* addExternalCallingNodes for the external calling node
requestedUnits(P, ctxt, fn, inst) ==
  IF isDirect(P, inst)
  THEN <<<<updateContext(ctxt, fn), inst.callee>>>>
  ELSE unitsFor(P, inst, indirectContext(ctxt, fn),
                {n \in calleeNodes(P, inst) : hasFunction(n)})
         \o (IF \E n \in calleeNodes(P, inst) :
                   ~hasFunction(n) /\ n # "callsExternal"
              THEN unitsFor(P, inst, externalContext(ctxt, fn),
                            P.externalCalling)
              ELSE <<>>)

\* CallSensitiveAnalysisPass::invokableCode(cs): the units <<context,
\* function>> it returns.  Its first loop tests "*callee ==
\* cg.getExternalCallingNode()" in the else branch of
\* "if (!function->isDeclaration())", inside "if (function)": it sets
\* addExternalCallingNodes for a node that has a function without a body
\* and is the external calling node
invokableCode(P, ctxt, fn, inst) ==
  IF isDirect(P, inst)
  THEN <<<<updateContext(ctxt, fn), inst.callee>>>>
  ELSE unitsFor(P, inst, indirectContext(ctxt, fn),
                {n \in calleeNodes(P, inst) : hasFunction(n)})
         \o (IF \E n \in calleeNodes(P, inst) :
                   /\ hasFunction(n)
                   /\ functionIsCallable(P, inst, n)
                   /\ isDeclaration(P, n)
                   /\ n = "externalCalling"
              THEN unitsFor(P, inst, externalContext(ctxt, fn),
                            P.externalCalling)
              ELSE <<>>)

\* "for each callee of callees: constrainCallee(callee.second,
\* *callee.first, cs, flows)"
RECURSIVE constrainCallees(_, _, _, _, _)
constrainCallees(P, ctxt, bb, inst, callees) ==
  IF callees = <<>> THEN <<>>
  ELSE constrainCallee(P, ctxt, Head(callees)[1], Head(callees)[2], bb, inst)
         \o constrainCallees(P, ctxt, bb, inst, Tail(callees))

\* Infoflow::constrainCallSite: the records for the units of invokableCode
constrainCallSite(P, ctxt, fn, bb, inst) ==
  constrainCallees(P, ctxt, bb, inst, invokableCode(P, ctxt, fn, inst))

\* constrainMemset (constrainIntrinsic for llvm.memset): FlowRecord(false)
\* and FlowRecord(true) have the context DefaultID
constrainMemset(inst) ==
  <<FlowRecordDefault(FALSE, {inst.operands[2]}, {inst.operands[1]}),
    FlowRecordDefault(TRUE, {inst.operands[3], inst.operands[4]},
                      {inst.operands[1]})>>

\* Infoflow::getInstructionFlowsInternal: the records of one instruction
\* (for a fence none, see constrainFenceInst)
getInstructionFlowsInternal(P, ctxt, fn, bb, inst) ==
  CASE inst.op = "phi" -> operandsAndPCtoValue(ctxt, bb, inst)
    [] inst.op = "br" -> constrainBranchInst(P, ctxt, fn, bb, inst)
    [] inst.op = "ret" -> constrainReturnInst(ctxt, bb, inst)
    [] inst.op = "call" -> constrainCallSite(P, ctxt, fn, bb, inst)
    [] inst.op = "memset" -> constrainMemset(inst)
    [] inst.op = "fence" -> <<>>

\* Infoflow::generateBasicBlockConstraints: the records of the
\* instructions of bb from the i-th on
RECURSIVE generateBasicBlockConstraints(_, _, _, _, _)
generateBasicBlockConstraints(P, ctxt, fn, bb, i) ==
  IF i > Len(P.insts[bb]) THEN <<>>
  ELSE getInstructionFlowsInternal(P, ctxt, fn, bb, P.insts[bb][i])
         \o generateBasicBlockConstraints(P, ctxt, fn, bb, i + 1)

\* The first loop of generateFunctionConstraints: the records of the
\* blocks of fn from the i-th on
RECURSIVE functionFlows(_, _, _, _)
functionFlows(P, ctxt, fn, i) ==
  IF i > Len(P.blocks[fn]) THEN <<>>
  ELSE generateBasicBlockConstraints(P, ctxt, fn, P.blocks[fn][i], 1)
         \o functionFlows(P, ctxt, fn, i + 1)

\* The call instructions of fn, in the order of the blocks
RECURSIVE callsOf(_, _, _)
callsOf(P, fn, i) ==
  IF i > Len(P.blocks[fn]) THEN <<>>
  ELSE LET Call(inst) == inst.op = "call"
       IN SelectSeq(P.insts[P.blocks[fn][i]], Call) \o callsOf(P, fn, i + 1)

\* "elem = kit->newVar(...); valueMap.insert(...)" in the map of ctxt
insertElemCtxt(S, ctxt, value) ==
  [S EXCEPT !.I.valueConstraintMap = @ @@ (<<ctxt, value>> :> S.I.nVars + 1),
            !.I.nVars = @ + 1]

\* The element of value in the map of ctxt
elemCtxt(S, ctxt, value) == newVar(S.I.valueConstraintMap[<<ctxt, value>>])

\* "kit->addConstraint("default", summarySource, elem);
\* putOrConstrainConsElemSummarySink("default", value, elem)"
hookUpCtxt(S, ctxt, value) ==
  putOrConstrainConsElemSummarySink(
    kitAddConstraint(S, "default",
                     newVar(S.I.summarySourceValueConstraintMap[value]),
                     elemCtxt(S, ctxt, value)),
    "default", value, elemCtxt(S, ctxt, value))

\* Infoflow::getOrCreateConsElem(ctxt, value)
getOrCreateConsElemCtxt(S, ctxt, value) ==
  IF ~Alive(S) \/ <<ctxt, value>> \in DOMAIN S.I.valueConstraintMap THEN S
  ELSE hookUpCtxt(
         getOrCreateConsElemSummarySource(insertElemCtxt(S, ctxt, value),
                                          value),
         ctxt, value)

\* "kit->addConstraint(kindFromImplicitSink(implicit, sink), lub, current)"
constrainElemCtxt(S, kind, ctxt, value, lub) ==
  kitAddConstraint(S, kind, lub, elemCtxt(S, ctxt, value))

\* Infoflow::putOrConstrainConsElem(implicit, sink, ctxt, value, lub)
putOrConstrainConsElemCtxt(S, implicit, sink, ctxt, value, lub) ==
  constrainElemCtxt(getOrCreateConsElemCtxt(S, ctxt, value),
                    kindFromImplicitSink(implicit, sink), ctxt, value, lub)

\* The loop of constrainFlowRecord over the value sources
RECURSIVE createSourceElemsCtxt(_, _, _)
createSourceElemsCtxt(S, ctxt, sources) ==
  IF sources = <<>> THEN S
  ELSE createSourceElemsCtxt(getOrCreateConsElemCtxt(S, ctxt, Head(sources)),
                             ctxt, Tail(sources))

\* The loop of constrainFlowRecord over the value sinks, regFlow holding
RECURSIVE constrainSinksCtxt(_, _, _, _, _)
constrainSinksCtxt(S, implicit, ctxt, sinks, sourceElem) ==
  IF sinks = <<>> THEN S
  ELSE constrainSinksCtxt(
         putOrConstrainConsElemCtxt(S, implicit, FALSE, ctxt, Head(sinks),
                                    sourceElem),
         implicit, ctxt, Tail(sinks), sourceElem)

\* Infoflow::getOrCreateConsElem(loc)
getOrCreateConsElemLoc(S, loc) ==
  IF ~Alive(S) \/ loc \in DOMAIN S.I.locConstraintMap THEN S
  ELSE [S EXCEPT !.I.locConstraintMap = @ @@ (loc :> S.I.nVars + 1),
                 !.I.nVars = @ + 1]

\* "kit->addConstraint(kindFromImplicitSink(implicit, sink), lub, current)"
constrainElemLoc(S, kind, loc, lub) ==
  kitAddConstraint(S, kind, lub, newVar(S.I.locConstraintMap[loc]))

\* Infoflow::putOrConstrainConsElem(implicit, sink, loc, lub)
putOrConstrainConsElemLoc(S, implicit, sink, loc, lub) ==
  constrainElemLoc(getOrCreateConsElemLoc(S, loc),
                   kindFromImplicitSink(implicit, sink), loc, lub)

\* Infoflow::getOrCreateVargConsElemSummarySource
getOrCreateVargConsElemSummarySource(S, fun) ==
  IF ~Alive(S) \/ S.I.summarySourceVargConstraintMap[fun] # NoVar THEN S
  ELSE [S EXCEPT !.I.summarySourceVargConstraintMap[fun] = S.I.nVars + 1,
                 !.I.nVars = @ + 1]

\* Infoflow::getOrCreateVargConsElemSummarySink
getOrCreateVargConsElemSummarySink(S, fun) ==
  IF ~Alive(S) \/ S.I.summarySinkVargConstraintMap[fun] # NoVar THEN S
  ELSE [S EXCEPT !.I.summarySinkVargConstraintMap[fun] = S.I.nVars + 1,
                 !.I.nVars = @ + 1]

constrainVargSummarySource(S, kind, fun, lub) ==
  kitAddConstraint(S, kind, lub,
                   newVar(S.I.summarySourceVargConstraintMap[fun]))

\* Infoflow::putOrConstrainVargConsElemSummarySource
putOrConstrainVargConsElemSummarySource(S, kind, fun, lub) ==
  constrainVargSummarySource(getOrCreateVargConsElemSummarySource(S, fun),
                             kind, fun, lub)

constrainVargSummarySink(S, kind, fun, lub) ==
  kitAddConstraint(S, kind, lub,
                   newVar(S.I.summarySinkVargConstraintMap[fun]))

\* Infoflow::putOrConstrainVargConsElemSummarySink
putOrConstrainVargConsElemSummarySink(S, kind, fun, lub) ==
  constrainVargSummarySink(getOrCreateVargConsElemSummarySink(S, fun), kind,
                           fun, lub)

\* "elem = kit->newVar(...); valueMap.insert(...)" in the varargs map of
\* ctxt
insertVargElem(S, ctxt, fun) ==
  [S EXCEPT !.I.vargConstraintMap = @ @@ (<<ctxt, fun>> :> S.I.nVars + 1),
            !.I.nVars = @ + 1]

vargElem(S, ctxt, fun) == newVar(S.I.vargConstraintMap[<<ctxt, fun>>])

\* "kit->addConstraint("default", summarySource, elem);
\* putOrConstrainVargConsElemSummarySink("default", value, elem)",
\* summarySource being getOrCreateConsElemSummarySource(value), the summary
\* source of the function as a value
hookUpVarg(S, ctxt, fun) ==
  putOrConstrainVargConsElemSummarySink(
    kitAddConstraint(S, "default",
                     newVar(S.I.summarySourceValueConstraintMap[fun]),
                     vargElem(S, ctxt, fun)),
    "default", fun, vargElem(S, ctxt, fun))

\* Infoflow::getOrCreateVargConsElem(ctxt, value)
getOrCreateVargConsElem(S, ctxt, fun) ==
  IF ~Alive(S) \/ <<ctxt, fun>> \in DOMAIN S.I.vargConstraintMap THEN S
  ELSE hookUpVarg(
         getOrCreateConsElemSummarySource(insertVargElem(S, ctxt, fun), fun),
         ctxt, fun)

constrainVargElem(S, kind, ctxt, fun, lub) ==
  kitAddConstraint(S, kind, lub, vargElem(S, ctxt, fun))

\* Infoflow::putOrConstrainVargConsElem(implicit, sink, ctxt, value, lub)
putOrConstrainVargConsElem(S, implicit, sink, ctxt, fun, lub) ==
  constrainVargElem(getOrCreateVargConsElem(S, ctxt, fun),
                    kindFromImplicitSink(implicit, sink), ctxt, fun, lub)

\* The loop of constrainFlowRecord over the varargs sinks, regFlow holding
RECURSIVE constrainSinkVargs(_, _, _, _, _)
constrainSinkVargs(S, implicit, ctxt, funs, sourceElem) ==
  IF funs = <<>> THEN S
  ELSE constrainSinkVargs(
         putOrConstrainVargConsElem(S, implicit, FALSE, ctxt, Head(funs),
                                    sourceElem),
         implicit, ctxt, Tail(funs), sourceElem)

\* Infoflow::setVargTainted
setVargTaintedOn(S, kind, fun) ==
  IF kind = "default" \/ kind = "implicit"
  THEN [S EXCEPT !.K.fatal = "assert"]
  ELSE putOrConstrainVargConsElemSummarySource(S, kind, fun, high)

\* InfoflowSolution::isVargTainted
isVargTainted(h, soln, vargMap, defaultTainted, fun) ==
  IF vargMap[fun] # NoVar
  THEN subst(h, soln, newVar(vargMap[fun])) = HIGH
  ELSE defaultTainted

\* Infoflow::locsForValue for the values of a set: what the points-to
\* analysis answers for the module
locsForValues(S, values) ==
  UNION {Program(S.I.program).locs[v] : v \in values}

\* The loop of constrainFlowRecord over SinkLocs, regFlow holding
RECURSIVE constrainSinkLocs(_, _, _, _)
constrainSinkLocs(S, implicit, locs, sourceElem) ==
  IF locs = <<>> THEN S
  ELSE constrainSinkLocs(
         putOrConstrainConsElemLoc(S, implicit, FALSE, Head(locs),
                                   sourceElem),
         implicit, Tail(locs), sourceElem)

\* The sinks of constrainFlowRecord: the value sinks and the varargs sinks
\* in the sink context of the record, then the locations of the direct
\* pointer sinks
constrainRecordSinksCtxt(S, record, sourceElem) ==
  constrainSinkLocs(
    constrainSinkVargs(
      constrainSinksCtxt(S, record.implicit, record.sinkContext,
                         InProgValueSet(record.sinks), sourceElem),
      record.implicit, record.sinkContext, InProgValueSet(record.vargSinks),
      sourceElem),
    record.implicit,
    InProgValueSet(locsForValues(S, record.directPtrSinks)), sourceElem)

\* constrainFlowRecord once the elements of the sources exist in S:
\* "sourceElem = &kit->upperBound(Sources)" and the sinks
constrainFromSources(S, record) ==
  IF record.sources = {} \/ ~Alive(S) THEN S
  ELSE constrainRecordSinksCtxt(
         S, record,
         LHJoin({elemCtxt(S, record.sourceContext, v) : v \in record.sources}))

\* Infoflow::constrainFlowRecord(record), the option DepsDropAtSink off
constrainFlowRecordCtxt(S, record) ==
  constrainFromSources(
    createSourceElemsCtxt(S, record.sourceContext,
                          InProgValueSet(record.sources)),
    record)

\* The second loop of generateFunctionConstraints
RECURSIVE constrainFlows(_, _)
constrainFlows(S, flows) ==
  IF flows = <<>> THEN S
  ELSE constrainFlows(constrainFlowRecordCtxt(S, Head(flows)), Tail(flows))

\* "this->getAnalysisResult(unit, input)" for the units of one call
RECURSIVE getAnalysisResults(_, _, _)
getAnalysisResults(R, cur, units) ==
  IF units = <<>> THEN R
  ELSE getAnalysisResults(getAnalysisResult(R, cur, Head(units), 0), cur,
                          Tail(units))

\* CallSensitiveAnalysisPass::getCallResult for the calls of the unit, one
\* after the other
RECURSIVE getCallResults(_, _, _, _)
getCallResults(R, P, unit, calls) ==
  IF calls = <<>> THEN R
  ELSE getCallResults(
         getAnalysisResults(
           R, unit, requestedUnits(P, unit[1], unit[2], Head(calls))),
         P, unit, Tail(calls))

\* processAnalysisUnit around runOnContext: the record of the unit is
\* written back with the output, which is Unit as before; R.runs counts
\* the calls of runOnContext for each unit
unitAnalyzed(R, unit) ==
  [R EXCEPT !.analyzedFunctions = @ \cup {unit[2]},
            !.analysisRecords[unit] = AnalysisRecord(@.in, 0),
            !.runs[unit] = @ + 1]

\* The fence instructions of fn
fences(P, fn) ==
  {inst \in UNION {Range(P.insts[bb]) : bb \in Range(P.blocks[fn])} :
     inst.op = "fence"}

\* Infoflow::constrainFenceInst:
\* assert(false && "Unsupported instruction type: fence")
constrainFenceInst(S) == [S EXCEPT !.K.fatal = "assert"]

\* InterProcAnalysisPass::processAnalysisUnit(unit) with Infoflow's
\* runOnContext: generateFunctionConstraints(unit.function()), which
\* reaches its second loop if no instruction of the function aborted
processUnitOn(S, P, unit) ==
  IF fences(P, unit[2]) # {}
  THEN constrainFenceInst([S EXCEPT !.I.runs[unit] = @ + 1])
  ELSE constrainFlows(
         [S EXCEPT !.I = unitAnalyzed(
                           getCallResults(S.I, P, unit,
                                          callsOf(P, unit[2], 1)),
                           unit)],
         functionFlows(P, unit[1], unit[2], 1))

\* No Slice has been constructed
NoSlice == [built |-> FALSE, name |-> "", sources |-> {}, sinks |-> {},
            cutAfterSinks |-> FALSE, forward |-> NULL, backward |-> NULL,
            constraints |-> <<>>]

NoSolution == [kinds |-> {}, implicit |-> FALSE, tainted |-> {},
               vargTainted |-> {}, level |-> <<>>, locLevel |-> <<>>,
               isTainted |-> <<>>, isVargTainted |-> <<>>]

InitProg ==
  /\ constraints = <<>>
  /\ lockedConstraintKinds = {}
  /\ leastSolutions = <<>>
  /\ greatestSolutions = <<>>
  /\ heap = <<>>
  /\ fatal = "none"
  /\ added = [k \in Kinds |-> <<>>]
  /\ requested = {}
  /\ lastCall = NoCall
  /\ result = NoResult
  /\ mt = NoMT
  /\ nAdds = 0
  /\ nSolves = 0
  /\ sol = NoSol
  /\ joins = NoJoins
  /\ ipa = NoIpa
  /\ \E name \in ProgramNames :
       inf = [phase |-> "prog", program |-> name, step |-> "init",
              workQueue |-> <<>>, analysisRecords |-> <<>>,
              dependencies |-> [u \in ProgUnits |-> {}],
              analyzedFunctions |-> {},
              summarySourceValueConstraintMap |-> [v \in ProgValues |-> NoVar],
              summarySinkValueConstraintMap |-> [v \in ProgValues |-> NoVar],
              valueConstraintMap |-> <<>>, locConstraintMap |-> <<>>,
              summarySourceVargConstraintMap |->
                [f \in ProgFunctions |-> NoVar],
              summarySinkVargConstraintMap |->
                [f \in ProgFunctions |-> NoVar],
              vargConstraintMap |-> <<>>, vargTainted |-> {},
              runs |-> [u \in ProgUnits |-> 0],
              nVars |-> 0, nTaints |-> 0, tainted |-> {},
              solved |-> FALSE, solution |-> NoSolution, nSlices |-> 0,
              slice |-> NoSlice]

ProgOnly ==
  UNCHANGED <<constraints, lockedConstraintKinds, leastSolutions,
              greatestSolutions, heap, fatal, added, requested, lastCall,
              result, mt, nAdds, nSolves, sol, joins, ipa>>

\* The start functions, each in initialContext
startUnits(functions) == [i \in 1..Len(functions) |-> <<<<>>, functions[i]>>]

\* runOnModule up to the first loop: addStartItemsToWorkQueue
progStart ==
  /\ fatal = "none"
  /\ inf.phase = "prog"
  /\ inf.step = "init"
  /\ inf' = [addItems(inf, startUnits(Program(inf.program).root))
               EXCEPT !.step = "first"]
  /\ ProgOnly

\* One iteration of "while (!workQueue.empty())" of runOnModule
progProcessOn(S) ==
  /\ SetKit(S.K)
  /\ inf' = S.I

progProcess ==
  /\ fatal = "none"
  /\ inf.phase = "prog"
  /\ inf.step \in {"first", "second"}
  /\ inf.workQueue # <<>>
  /\ progProcessOn(processUnitOn([K |-> Kit,
                                  I |-> [inf EXCEPT !.workQueue = Tail(@)]],
                                 Program(inf.program), Head(inf.workQueue)))
  /\ UNCHANGED <<added, requested, lastCall, result, mt, nAdds, nSolves, sol,
                 joins, ipa>>

\* addUnanalyzedFunctionsToWorkQueue finding no function to add
unanalyzedNone(functions, analyzedFunctions) == <<>>

\* The functions of the module not analysed in the first loop
unanalyzed(functions, analyzedFunctions) ==
  LET Test(f) == f \notin analyzedFunctions IN SelectSeq(functions, Test)

\* The first loop is left: addUnanalyzedFunctionsToWorkQueue
progAddUnanalyzed ==
  /\ fatal = "none"
  /\ inf.phase = "prog"
  /\ inf.step = "first"
  /\ inf.workQueue = <<>>
  /\ inf' = [addItems(inf, startUnits(unanalyzed(Program(inf.program).functions,
                                                 inf.analyzedFunctions)))
               EXCEPT !.step = "second"]
  /\ ProgOnly

\* The second loop is left: runOnModule returns
progReturn ==
  /\ fatal = "none"
  /\ inf.phase = "prog"
  /\ inf.step = "second"
  /\ inf.workQueue = <<>>
  /\ inf' = [inf EXCEPT !.step = "done"]
  /\ ProgOnly

progTaintReturn(S, kind, value) ==
  /\ SetKit(S.K)
  /\ inf' = [S.I EXCEPT !.nTaints = @ + 1,
                        !.tainted = IF Alive(S) THEN @ \cup {<<kind, value>>}
                                    ELSE @]

\* Infoflow::setTainted(kind, value) by a client of the pass
progSetTainted(kind, value) ==
  /\ Running
  /\ inf.phase = "prog"
  /\ inf.step = "done"
  /\ inf.nTaints < MaxTaints
  /\ progTaintReturn(setTaintedOn(Info, kind, value), kind, value)
  /\ UNCHANGED <<added, requested, lastCall, result, mt, nAdds, nSolves, sol,
                 joins, ipa>>

progVargTaintReturn(S, kind, fun) ==
  /\ SetKit(S.K)
  /\ inf' = [S.I EXCEPT !.nTaints = @ + 1,
                        !.vargTainted = IF Alive(S) THEN @ \cup {<<kind, fun>>}
                                        ELSE @]

\* Infoflow::setVargTainted(kind, fun) by a client of the pass
progSetVargTainted(kind, fun) ==
  /\ Running
  /\ inf.phase = "prog"
  /\ inf.step = "done"
  /\ inf.nTaints < MaxTaints
  /\ progVargTaintReturn(setVargTaintedOn(Info, kind, fun), kind, fun)
  /\ UNCHANGED <<added, requested, lastCall, result, mt, nAdds, nSolves, sol,
                 joins, ipa>>

\* new InfoflowSolution(...) over the solution r of the kit: the level of
\* the variable of every value in every context, and isTainted for every
\* value; the client then deletes the solution
progSolutionReturn(r, kinds, implicit) ==
  IF r.K.fatal = "none"
  THEN /\ SetKit([r.K EXCEPT !.heap = Delete(@, r.PS)])
       /\ inf' = [inf EXCEPT
                    !.solved = TRUE,
                    !.solution =
                       [kinds |-> kinds, implicit |-> implicit,
                        tainted |-> {t[2] : t \in {u \in inf.tainted :
                                                     u[1] \in kinds}},
                        vargTainted |->
                          {t[2] : t \in {u \in inf.vargTainted :
                                          u[1] \in kinds}},
                        level |->
                          [k \in DOMAIN inf.valueConstraintMap |->
                             subst(r.K.heap, r.PS,
                                   newVar(inf.valueConstraintMap[k]))],
                        locLevel |->
                          [l \in DOMAIN inf.locConstraintMap |->
                             subst(r.K.heap, r.PS,
                                   newVar(inf.locConstraintMap[l]))],
                        isTainted |->
                          [v \in ProgValues |->
                             isTainted(r.K.heap, r.PS,
                                       inf.summarySinkValueConstraintMap,
                                       FALSE, v)],
                        isVargTainted |->
                          [f \in ProgFunctions |->
                             isVargTainted(r.K.heap, r.PS,
                                           inf.summarySinkVargConstraintMap,
                                           FALSE, f)]]]
  ELSE /\ SetKit(r.K)
       /\ UNCHANGED inf

\* Infoflow::leastSolution(kinds, implicit, false) by a client of the pass
progLeastSolution(kinds, implicit) ==
  /\ Running
  /\ inf.phase = "prog"
  /\ inf.step = "done"
  /\ nSolves < MaxQueries
  /\ nSolves' = nSolves + 1
  /\ progSolutionReturn(solution(Kit, leastKinds(kinds, implicit, FALSE),
                                 FALSE),
                        kinds, implicit)
  /\ UNCHANGED <<added, requested, lastCall, result, mt, nAdds, sol, joins,
                 ipa>>

MaxSlices == 1      \* Slice objects constructed in one run
SliceNames == {"k1"}

\* The values a client gives a Slice as sinks: the instructions of the
\* module other than its branches
SliceSinks(P) ==
  {inst.value :
     inst \in {i \in UNION {Range(P.insts[bb]) : bb \in DOMAIN P.insts} :
                i.op # "br"}}

\* The loop of Slice::Slice over the source values of rec
RECURSIVE taintSources(_, _, _)
taintSources(S, sourceKind, values) ==
  IF values = <<>> THEN S
  ELSE taintSources(setTaintedOn(S, sourceKind, Head(values)), sourceKind,
                    Tail(values))

\* The loop of Slice::Slice over the sink values of rec
RECURSIVE untaintSinks(_, _, _)
untaintSinks(S, sinkKind, values) ==
  IF values = <<>> THEN S
  ELSE untaintSinks(setUntaintedOn(S, sinkKind, Head(values)), sinkKind,
                    Tail(values))

\* The constraints Slice::Slice generates from the sources and sinks of rec
sliceConstraints(S, name, sources, sinks) ==
  untaintSinks(taintSources(S, name \o "-sources", InProgValueSet(sources)),
               name \o "-sinks", InProgValueSet(sinks))

\* "backward = infoflow.greatestSolution(sinkKinds, false)" after the
\* forward solution f
sliceBackward(f, b) == [K |-> b.K, forward |-> f.PS, backward |-> b.PS]

sliceForward(f, name) ==
  IF f.K.fatal # "none"
  THEN [K |-> f.K, forward |-> f.PS, backward |-> NULL]
  ELSE sliceBackward(f, solution(f.K, greatestKinds({name \o "-sinks"}, FALSE),
                                 TRUE))

\* "forward = infoflow.leastSolution(sourceKinds, false, !cutAfterSinks)" and
\* the backward solution, on the kit K
sliceSolutions(K, name, cutSinks) ==
  sliceForward(solution(K, leastKinds({name \o "-sources"}, FALSE, ~cutSinks),
                        FALSE),
               name)

\* The first half of Slice::Slice(info, name, rec, cutSinks) by a client
\* of the pass, rec holding source values and sink values: the loops that
\* generate the constraints.  The client does nothing else until the
\* constructor returns
sliceConstrained(S, name, sources, sinks, cutSinks) ==
  /\ SetKit(S.K)
  /\ inf' = [S.I EXCEPT
               !.step = IF Alive(S) THEN "slice" ELSE @,
               !.nSlices = @ + 1,
               !.slice = [built |-> FALSE, name |-> name,
                          sources |-> sources, sinks |-> sinks,
                          cutAfterSinks |-> cutSinks, forward |-> NULL,
                          backward |-> NULL,
                          constraints |-> S.K.constraints]]

progSlice(name, sources, sinks, cutSinks) ==
  /\ Running
  /\ inf.phase = "prog"
  /\ inf.step = "done"
  /\ inf.nSlices < MaxSlices
  /\ nSolves < MaxQueries
  /\ sliceConstrained(sliceConstraints(Info, name, sources, sinks), name,
                      sources, sinks, cutSinks)
  /\ UNCHANGED <<added, requested, lastCall, result, mt, nAdds, nSolves, sol,
                 joins, ipa>>

\* The Slice keeps its two solutions
sliceReturn(r) ==
  /\ SetKit(r.K)
  /\ inf' = [inf EXCEPT !.step = "done",
                        !.slice.built = r.K.fatal = "none",
                        !.slice.forward = r.forward,
                        !.slice.backward = r.backward]

\* The second half of Slice::Slice: the forward and the backward solution
progSliceSolve ==
  /\ Running
  /\ inf.phase = "prog"
  /\ inf.step = "slice"
  /\ nSolves' = nSolves + 1
  /\ sliceReturn(sliceSolutions(Kit, inf.slice.name,
                                inf.slice.cutAfterSinks))
  /\ UNCHANGED <<added, requested, lastCall, result, mt, nAdds, sol, joins,
                 ipa>>

\* valueInSlice asking the forward solution only
valueInSliceForward(value) ==
  isTainted(heap, inf.slice.forward, inf.summarySinkValueConstraintMap,
            FALSE, value)

\* Slice::valueInSlice
valueInSlice(value) ==
  /\ isTainted(heap, inf.slice.forward, inf.summarySinkValueConstraintMap,
               FALSE, value)
  /\ ~isTainted(heap, inf.slice.backward,
                inf.summarySourceValueConstraintMap, TRUE, value)

NextProg ==
  \/ progStart
  \/ progProcess
  \/ progAddUnanalyzed
  \/ progReturn
  \/ \E kind \in TaintKinds : \E value \in Taintable(inf.program) :
       progSetTainted(kind, value)
  \/ \E kind \in TaintKinds : \E fun \in Program(inf.program).varArg :
       progSetVargTainted(kind, fun)
  \/ \E kinds \in SUBSET TaintKinds, implicit \in BOOLEAN :
       progLeastSolution(kinds, implicit)
  \/ \E name \in SliceNames, cutSinks \in BOOLEAN :
       \E source \in Taintable(inf.program) :
         \E sink \in SliceSinks(Program(inf.program)) :
           progSlice(name, {source}, {sink}, cutSinks)
  \/ progSliceSolve

SpecProg == InitProg /\ [][NextProg]_vars

\* The level the solution gives the variable of value in context ctxt;
\* NoLevel if there is no such variable
NoLevel == HIGH + 1
levelOf(ctxt, value) ==
  IF <<ctxt, value>> \in DOMAIN inf.solution.level
  THEN inf.solution.level[<<ctxt, value>>]
  ELSE NoLevel

\* The call sites of the module: the calling function and the call
CallSites(P) ==
  {[caller |-> fn, inst |-> P.insts[bb][i]] :
     <<fn, bb, i>> \in
       {t \in ProgFunctions \X ProgValues \X (1..3) :
          /\ t[1] \in Range(P.functions)
          /\ t[2] \in Range(P.blocks[t[1]])
          /\ t[3] \in DOMAIN P.insts[t[2]]
          /\ P.insts[t[2]][t[3]].op = "call"}}

\* The values passed as arguments at the call sites of the module
Arguments(P) == UNION {Range(s.inst.operands) : s \in CallSites(P)}

\* A least solution was asked for after the analysis of a module with two
\* call sites of one function, the argument of one declared tainted, the
\* argument of the other not, and nothing else declared tainted
TwoCalls(tainted, untainted) ==
  /\ inf.phase = "prog"
  /\ inf.solved
  /\ tainted.inst.callee = untainted.inst.callee
  /\ inf.solution.tainted \subseteq Arguments(Program(inf.program))
  /\ tainted.inst.operands[1] \in inf.solution.tainted
  /\ untainted.inst.operands[1] \notin inf.solution.tainted

\* With K = 1 the context of a call is the calling function: the
\* parameter variable of the call is the one in that context
paramLevel(site) ==
  levelOf(<<site.caller>>, Program(inf.program).params[site.inst.callee][1])

C12_ImplicitTaintsPhi ==
  (/\ inf.phase = "prog"
   /\ inf.program = "diamond"
   /\ inf.solved
   /\ inf.solution.tainted = {"c"})
  => (inf.solution.isTainted["y"] <=> inf.solution.implicit)


\* The units runOnContext has run for, with the module they belong to
analyzedUnits == {unit \in ProgUnits : inf.runs[unit] > 0}
\* The instructions of fn, each with its block
instsOf(P, fn) ==
  {<<bb, inst>> \in Range(P.blocks[fn]) \X UNION {Range(P.insts[b]) : b \in DOMAIN P.insts} :
     inst \in Range(P.insts[bb])}

\* C21: at every call site of an analysed unit, the units <<context,
\* callee>> for which the PC, parameter and return records are emitted
\* (invokableCode) are the units whose analysis getCallResult requests for
\* the call site, the callees reached through the external calling node
\* included
C21_EmittedAreRequested ==
  \A unit \in analyzedUnits :
    \A inst \in Range(callsOf(Program(inf.program), unit[2], 1)) :
      Range(invokableCode(Program(inf.program), unit[1], unit[2], inst))
        = Range(requestedUnits(Program(inf.program), unit[1], unit[2], inst))

\* The search the claim C22 describes: a block is enqueued once, and the
\* successors of a dequeued block that does not post-dominate bb are
\* enqueued; the blocks found are the dequeued blocks that do not
\* post-dominate bb
RECURSIVE breadthFirst(_, _, _, _, _, _)
breadthFirst(P, fn, bb, workqueue, visited, reached) ==
  IF workqueue = <<>> THEN reached
  ELSE IF postDominates(P, fn, Head(workqueue), bb)
  THEN breadthFirst(P, fn, bb, Tail(workqueue), visited, reached)
  ELSE LET New(succ) == succ \notin visited
           new == SelectSeq(successors(P, Head(workqueue)), New)
       IN breadthFirst(P, fn, bb, Tail(workqueue) \o new,
                       visited \cup Range(new),
                       reached \cup {Head(workqueue)})

\* The conditional branches of fn, each with its block
conditionalBranches(P, fn) ==
  {pair \in instsOf(P, fn) : pair[2].op = "br" /\ pair[2].operands # <<>>}

\* C22: for a conditional branch the sinks of the implicit record are the
\* blocks found by a breadth-first search from the successors of the
\* branch that goes on through the successors of every visited block that
\* does not post-dominate the block of the branch, each block being
\* visited once
C22_SinksAreBreadthFirst ==
  \A unit \in analyzedUnits :
    \A pair \in conditionalBranches(Program(inf.program), unit[2]) :
      constrainBranchInst(Program(inf.program), unit[1], unit[2], pair[1],
                          pair[2])[1].sinks
        = breadthFirst(Program(inf.program), unit[2], pair[1],
                       pair[2].succs, Range(pair[2].succs), {})

\* C23: when runOnModule returns, the work queue is empty and every
\* function of the module with a body has been analysed in at least one
\* context, the functions no start function reaches included
C23_AllFunctionsAnalyzed ==
  inf.step = "done" =>
    /\ inf.workQueue = <<>>
    /\ \A f \in Range(Program(inf.program).functions) :
         /\ f \in inf.analyzedFunctions
         /\ \E unit \in analyzedUnits : unit[2] = f

\* runOnModule returned for the module whose function orphan is called by
\* no one: orphan was analysed in the second loop
C23_Witness ==
  /\ inf.program = "indirect"
  /\ inf.step = "done"
  /\ inf.runs[<<<<>>, "orphan">>] = 1
  /\ Range(Program(inf.program).functions) \subseteq inf.analyzedFunctions

\* C24: with Unit as input and output, runOnContext runs at most once for
\* each unit over both loops of runOnModule: no unit's constraints are
\* generated twice, and the loops make at most as many steps as there are
\* units
C24_EachUnitOnce ==
  \A unit \in ProgUnits : inf.runs[unit] <= 1

\* runOnModule returned for the module in which handler calls itself: the
\* unit of handler in the context of the caller handler asked for its own
\* result while it was analysed, and the unit of handler in DefaultID was
\* asked for by both calls of main; each ran once
C24_Witness ==
  /\ inf.program = "indirect"
  /\ inf.step = "done"
  /\ inf.runs[<<<<"handler">>, "handler">>] = 1
  /\ inf.runs[<<<<>>, "handler">>] = 1
  /\ inf.dependencies[<<<<"handler">>, "handler">>] = {<<<<>>, "handler">>}

\* C27: a fence instruction produces no flow record and no constraint,
\* and the generation of the constraints of its function goes on with the
\* next instruction: after the analysis of a unit whose function has a
\* fence the pass is running, the fence has no constraint variable and the
\* values of the other instructions have theirs
C27_FenceIsSkipped ==
  \A unit \in analyzedUnits :
    fences(Program(inf.program), unit[2]) # {} =>
      /\ fatal = "none"
      /\ \A pair \in instsOf(Program(inf.program), unit[2]) :
           (<<unit[1], pair[2].value>> \in DOMAIN inf.valueConstraintMap)
             <=> (pair[2].op # "fence" /\ pair[2].operands # <<>>)

\* C29: every flow record generated for an instruction while the unit
\* <<c, f>> is analysed has c as source context and as sink context,
\* except the records of a call, which have c on the side of the caller;
\* so the records of memset constrain the variables the operands have in
\* c
C29_RecordsUseCurrentContext ==
  \A unit \in analyzedUnits :
    \A pair \in instsOf(Program(inf.program), unit[2]) :
      \A record \in Range(getInstructionFlowsInternal(
                            Program(inf.program), unit[1], unit[2], pair[1],
                            pair[2])) :
        IF pair[2].op = "call"
        THEN record.sourceContext = unit[1] \/ record.sinkContext = unit[1]
        ELSE record.sourceContext = unit[1] /\ record.sinkContext = unit[1]


(***************************************************************************)
(* SpecFree: a kit that holds the constraints of the kinds default,        *)
(* default-sinks and k1 after constraint generation, and a client that     *)
(* asks for solutions in any order through leastSolution,                  *)
(* greatestSolution, solveMT and solveLeastMT.                             *)
(***************************************************************************)
MaxFreeSolves == 3  \* solve requests in one run of the kit
FreeKinds == {"default", "default-sinks"}

InitFree ==
  \E d \in SUBSET DOMAIN MTDefault, s \in SUBSET DOMAIN MTDefaultSinks,
     a \in SUBSET DOMAIN MTSources1 :
    Generated(addAll(addAll(addAll(EmptyKit,
                                   "default", Pick(MTDefault, d)),
                            "default-sinks", Pick(MTDefaultSinks, s)),
                     "k1", Pick(MTSources1, a)))

NextFree ==
  \/ \E kinds \in SUBSET FreeKinds :
       requestSolutionWithin(MaxFreeSolves, kinds, FALSE)
  \/ \E kinds \in SUBSET FreeKinds :
       requestSolutionWithin(MaxFreeSolves, kinds, TRUE)
  \/ \E kind \in FreeKinds : solveMTWithin(MaxFreeSolves, kind)
  \/ \E kinds \in {<<>>, <<"k1">>}, useDefaultSinks \in BOOLEAN :
       solveLeastMTBeginWithin(MaxFreeSolves, kinds, useDefaultSinks)
  \/ \E t \in 0..(T - 1) : merge(t)
  \/ solveLeastMTJoin

SpecFree == InitFree /\ [][NextFree]_vars

\* C25: under every sequence of leastSolution, greatestSolution, solveMT
\* and solveLeastMT calls the constraint list of a kind is emptied only
\* after a least and a greatest partial solution were computed for the
\* kind: a kind whose list no longer holds the constraints added to it has
\* a partial solution of each polarity
C25_FreedAfterBothSolved ==
  \A kind \in DOMAIN constraints :
    constraints[kind] # added[kind] =>
      /\ kind \in DOMAIN leastSolutions
      /\ leastSolutions[kind] # NULL
      /\ kind \in DOMAIN greatestSolutions
      /\ greatestSolutions[kind] # NULL

\* C26: the varargs taint interface uses the pool of the varargs
\* variables only.  In a least solution over kinds, a function whose
\* varargs variable was created during the analysis and whose varargs were
\* declared tainted in one of the kinds has isVargTainted; and declaring
\* the function tainted as an ordinary value does not change
\* isVargTainted: with no value but such functions declared tainted,
\* isVargTainted holds for the functions with tainted varargs only
C26_VarargsPoolOnly ==
  inf.solved =>
    /\ \A fun \in inf.solution.vargTainted :
         (\E key \in DOMAIN inf.vargConstraintMap : key[2] = fun)
           => inf.solution.isVargTainted[fun]
    /\ inf.solution.tainted \subseteq ProgFunctions =>
         \A fun \in ProgFunctions :
           inf.solution.isVargTainted[fun]
             => fun \in inf.solution.vargTainted

\* The constraint variables of a value: its summary source, its summary
\* sink and its variable in every context
variablesOf(value) ==
  ({inf.summarySourceValueConstraintMap[value],
    inf.summarySinkValueConstraintMap[value]} \ {NoVar})
    \cup {inf.valueConstraintMap[key] :
            key \in {k \in DOMAIN inf.valueConstraintMap : k[2] = value}}

variablesOfAll(values) == UNION {variablesOf(value) : value \in values}

\* The pairs <<a, b>> of variables with a constraint "... a ... <= b" among
\* the constraints of the kinds "default" and "default-sinks" the Slice was
\* solved over
sliceEdges ==
  UNION {UNION {variables(c.left) \X variables(c.right) :
                  c \in Range(inf.slice.constraints[kind])} :
           kind \in {"default", "default-sinks"}
                      \cap DOMAIN inf.slice.constraints}

\* The variables a chain of constraints leads to from the variables from
RECURSIVE chained(_, _)
chainedStep(from, edges, next) ==
  IF next \subseteq from THEN from ELSE chained(from \cup next, edges)

chained(from, edges) ==
  chainedStep(from, edges, {e[2] : e \in {d \in edges : d[1] \in from}})

\* C28 as stated: a value is in the slice only if one chain of constraints
\* leads from a variable of a source through a variable of the value to a
\* variable of a sink
C28_InSliceOnOneChain ==
  inf.slice.built =>
    \A value \in ProgValues :
      valueInSlice(value) =>
        \E m \in variablesOf(value) :
          /\ m \in chained(variablesOfAll(inf.slice.sources), sliceEdges)
          /\ chained({m}, sliceEdges)
               \cap variablesOfAll(inf.slice.sinks) # {}

\* C28: a value is in the slice only if a chain of constraints leads from
\* a variable of a source to a variable of the value and a chain leads
\* from a variable of the value, which may be its variable in another
\* context, to a variable of a sink; a value not reachable from any
\* source, or from which no sink is reachable, is never in the slice
C28_InSliceOnTwoChains ==
  inf.slice.built =>
    \A value \in ProgValues :
      valueInSlice(value) =>
        /\ variablesOf(value)
             \cap chained(variablesOfAll(inf.slice.sources), sliceEdges) # {}
        /\ chained(variablesOf(value), sliceEdges)
             \cap variablesOfAll(inf.slice.sinks) # {}

\* A slice from a to r2 of the module with two callers: p, reached from a
\* in [f1] and reaching r2 from [f2], is in the slice
C28_Witness ==
  /\ inf.phase = "prog"
  /\ inf.program = "twoCallers"
  /\ inf.slice.built
  /\ inf.slice.sources = {"a"}
  /\ inf.slice.sinks = {"r2"}
  /\ valueInSlice("p")
  /\ ~valueInSlice("b")
====
